---------------------------- MODULE Spec2Model ----------------------------
(***************************************************************************)
(* Model of the workflow execution core of the repository:                 *)
(*   - MappingEvaluator  (backend/app/services/workflow_engine.py)         *)
(*   - WorkflowEngine    (backend/app/services/workflow_engine.py)         *)
(*   - ToolRegistry      (backend/app/tools/registry.py)                   *)
(*   - BaseTool.validate_inputs / run (backend/app/tools/base.py)          *)
(*                                                                         *)
(* Python strings are sequences of one-character strings, so that          *)
(* str.split("."), str.isdigit() and int() are computed, not assumed.      *)
(* JSON values are tagged records:                                         *)
(*   None  [t |-> "null"]          int   [t |-> "int",  i |-> n]           *)
(*   bool  [t |-> "bool", b |-> x] str   [t |-> "str",  s |-> chars]       *)
(*   list  [t |-> "list", l |-> <<..>>]                                    *)
(*   dict  [t |-> "dict", d |-> function from key strings to values]       *)
(* The character alphabet of the inputs is ASCII.                          *)
(*                                                                         *)
(* Specifications: Spec (one run of WorkflowEngine.execute), SpecDataflow  *)
(* (runs of two-node workflows passing data), SpecConcurrent (several      *)
(* execute coroutines interleaved), SpecLive (a run under weak fairness),  *)
(* SpecEval, SpecRegistry and SpecValidate (calls of the evaluator, the    *)
(* registry and validate_inputs on drawn inputs).                          *)
(***************************************************************************)
EXTENDS Integers, Sequences, FiniteSets, TLC

VARIABLES
    \* ---- MappingEvaluator, applied to inputs drawn by InitEval
    ev_call,         \* the method called: "evaluate", "_evaluate_single" or "_get_by_path"
    ev_outputs,      \* MappingEvaluator.node_outputs
    ev_mapping,      \* the mapping handed to _evaluate_single
    ev_data,         \* the data handed to _get_by_path
    ev_path,         \* the path string handed to _get_by_path
    ev_segs,         \* the segments the path string was written from
    ev_result,       \* what the call returned or raised
    ev_results,      \* history: what each call made so far returned or raised
    ev_pc            \* "start" before the call, "done" after it

evalVars == <<ev_call, ev_outputs, ev_mapping, ev_data, ev_path, ev_segs, ev_result,
              ev_results, ev_pc>>

VARIABLES
    \* ---- ToolRegistry
    _tools,            \* ToolRegistry._tools: tool_id -> instance
    _versioned_tools,  \* ToolRegistry._versioned_tools: tool_id -> version -> instance
    reg_log,           \* the instances passed to register(), in call order
    reg_got            \* the last call of register/get/exists/list_all and what it returned or raised

regVars == <<_tools, _versioned_tools, reg_log, reg_got>>

VARIABLES
    \* ---- BaseTool.validate_inputs, applied to inputs drawn by InitValidate
    vi_schema,       \* the tool's input_schema: a sequence of ToolParameter
    vi_inputs,       \* the raw inputs dict
    vi_result,       \* what validate_inputs returned or raised
    vi_pc            \* "start" before the call, "done" after it

valVars == <<vi_schema, vi_inputs, vi_result, vi_pc>>

VARIABLES
    \* ---- WorkflowEngine.execute, one run
    workflow,        \* the workflow handed to execute: [nodes, final_output]
    draft_override,  \* the draft_override handed to execute
    run_model,       \* the persisted run row
    trace_models,    \* the persisted node trace rows of the run, in insertion order
    nodes,           \* execute's local: the node list executed
    node_index,      \* position of "for node in nodes", from 1
    node_outputs,    \* execute's local: node_id -> output
    traces,          \* execute's local: the traces appended
    total_cost,      \* execute's local: RunCost
    returned,        \* what execute returned
    tool_calls,      \* history: the tool.run calls made, in order
    caught,          \* history: what the except clauses of the last _execute_node caught
    pc               \* "created", "loop" (between nodes), "node" (in a node), "done"

engineVars == <<workflow, draft_override, run_model, trace_models, nodes, node_index,
                node_outputs, traces, total_cost, returned, tool_calls, caught, pc>>

VARIABLES
    \* ---- several runs at once, each its own call of execute
    runs             \* run_id -> the run row and the locals of its execute call

concVars == <<runs>>

vars == <<evalVars, regVars, valVars, engineVars, concVars>>

-----------------------------------------------------------------------------
(* JSON values *)

VNull == [t |-> "null"]
VInt(n) == [t |-> "int", i |-> n]
VBool(x) == [t |-> "bool", b |-> x]
VStr(chars) == [t |-> "str", s |-> chars]
VList(items) == [t |-> "list", l |-> items]
VDict(fn) == [t |-> "dict", d |-> fn]
\* a float; its magnitude is never read
VFloat == [t |-> "float"]

EmptyDict == VDict(<<>>)

\* "value is None"
IsNone(v) == v.t = "null"

\* key strings used by the inputs
K_meta == <<"m", "e", "t", "a">>
K_chars == <<"c", "h", "a", "r", "s">>
K_items == <<"i", "t", "e", "m", "s">>
K_name == <<"n", "a", "m", "e">>
K_missing == <<"m", "i", "s", "s", "i", "n", "g">>
K_result == <<"r", "e", "s", "u", "l", "t">>
K_a == <<"a">>
K_x == <<"x">>
K_y == <<"y">>
K_0 == <<"0">>
K_1 == <<"1">>
K_2 == <<"2">>
K_01 == <<"0", "1">>
Dot == <<".">>

\* "a.b" from its segments
Join2(a, b) == a \o Dot \o b
Join3(a, b, c) == a \o Dot \o b \o Dot \o c

-----------------------------------------------------------------------------
(* str.split("."), str.isdigit(), int(str) *)

DigitChars == {"0", "1", "2", "3", "4", "5", "6", "7", "8", "9"}

DigitVal(c) ==
    CASE c = "0" -> 0 [] c = "1" -> 1 [] c = "2" -> 2 [] c = "3" -> 3
      [] c = "4" -> 4 [] c = "5" -> 5 [] c = "6" -> 6 [] c = "7" -> 7
      [] c = "8" -> 8 [] c = "9" -> 9

\* key.isdigit(): non-empty and every character a digit
IsDigit(key) == Len(key) > 0 /\ \A k \in 1..Len(key) : key[k] \in DigitChars

\* int(key) for a key that isdigit()
RECURSIVE ToInt(_)
ToInt(key) ==
    IF Len(key) = 0 THEN 0
    ELSE 10 * ToInt(SubSeq(key, 1, Len(key) - 1)) + DigitVal(key[Len(key)])

\* path.split("."): always at least one segment, empty segments kept
RECURSIVE Split(_)
Split(path) ==
    IF \A k \in 1..Len(path) : path[k] # "."
    THEN <<path>>
    ELSE LET first == CHOOSE k \in 1..Len(path) :
                          /\ path[k] = "."
                          /\ \A j \in 1..(k - 1) : path[j] # "."
         IN <<SubSeq(path, 1, first - 1)>> \o Split(SubSeq(path, first + 1, Len(path)))

-----------------------------------------------------------------------------
(* MappingEvaluator._get_by_path *)

\* one iteration of "for key in keys" on the current value; None is returned
\* from the function as soon as a segment cannot be applied
RECURSIVE WalkKeys(_, _)
WalkKeys(value, keys) ==
    IF keys = <<>> THEN value
    ELSE LET key == Head(keys) IN
         IF value.t = "dict"
         THEN IF key \in DOMAIN value.d
              THEN WalkKeys(value.d[key], Tail(keys))
              ELSE VNull
         ELSE IF value.t = "list" /\ IsDigit(key)
              THEN LET idx == ToInt(key) IN
                   IF 0 <= idx /\ idx < Len(value.l)
                   THEN WalkKeys(value.l[idx + 1], Tail(keys))
                   ELSE VNull
              ELSE VNull

\* mutant: the path is used as one key, never split
GetByPathUnsplit(data, path) ==
    IF path = <<>> THEN data
    ELSE WalkKeys(data, <<path>>)

GetByPath(data, path) ==
    IF path = <<>> THEN data
    ELSE WalkKeys(data, Split(path))

-----------------------------------------------------------------------------
(* Errors: WorkflowError(code, message, details, retryable) *)

\* details defaults to {} and retryable to False; the message is a function
\* of code and details and is not kept
WorkflowError(code, details, retryable) ==
    [ok |-> FALSE, kind |-> "WorkflowError", code |-> code, details |-> details,
     retryable |-> retryable]

\* any exception that is not a WorkflowError, by class name
PyException(name) == [ok |-> FALSE, kind |-> "Exception", exception |-> name]

Returned(v) == [ok |-> TRUE, value |-> v]

-----------------------------------------------------------------------------
(* Mappings as dicts: {"type": "constant", "value": v},                    *)
(* {"type": "fromNode", "node_id": n, "path": p}, or any other "type"      *)

ConstantMapping(v) == [type |-> "constant", value |-> v]
FromNodeMapping(n, p) == [type |-> "fromNode", node_id |-> n, path |-> p]
UnknownMapping == [type |-> "expression"]

\* details of "Referenced node ... not found or not executed yet"
NodeMissingDetails(mapping, current_node_id, key) ==
    [current_node |-> current_node_id, referenced_node |-> mapping.node_id, key |-> key]

\* details of "Path ... not found in node ... output"; available_keys as a set
PathMissingDetails(node_output, mapping, current_node_id, key) ==
    [current_node |-> current_node_id, referenced_node |-> mapping.node_id,
     path |-> mapping.path, key |-> key,
     available_keys |-> IF node_output.t = "dict" THEN DOMAIN node_output.d ELSE {}]

\* mutant: a None at the end of the path is returned, not refused
EvaluateFromNodeNullable(outputs, mapping, current_node_id, key) ==
    IF mapping.node_id \notin DOMAIN outputs
    THEN WorkflowError("PATH_NOT_FOUND", NodeMissingDetails(mapping, current_node_id, key), FALSE)
    ELSE Returned(GetByPath(outputs[mapping.node_id], mapping.path))

(* MappingEvaluator._evaluate_from_node *)
EvaluateFromNode(outputs, mapping, current_node_id, key) ==
    IF mapping.node_id \notin DOMAIN outputs
    THEN WorkflowError("PATH_NOT_FOUND", NodeMissingDetails(mapping, current_node_id, key), FALSE)
    ELSE LET node_output == outputs[mapping.node_id]
             value == GetByPath(node_output, mapping.path)
         IN IF IsNone(value)
            THEN WorkflowError("PATH_NOT_FOUND",
                               PathMissingDetails(node_output, mapping, current_node_id, key), FALSE)
            ELSE Returned(value)

(* MappingEvaluator.evaluate, the body of the loop for one key, with       *)
(* _evaluate_single                                                        *)
EvaluateSingle(outputs, mapping, current_node_id, key) ==
    IF mapping.type = "constant" THEN Returned(mapping.value)
    ELSE IF mapping.type = "fromNode"
         THEN EvaluateFromNode(outputs, mapping, current_node_id, key)
    ELSE WorkflowError("MAPPING_INVALID", [key |-> key, mapping |-> mapping], FALSE)

(* MappingEvaluator.evaluate: input_mapping is an ordered dict, here a     *)
(* sequence of <<key, mapping>> with distinct keys; the first failing key  *)
(* raises                                                                  *)
RECURSIVE EvaluateFrom(_, _, _, _)
EvaluateFrom(outputs, input_mapping, current_node_id, result) ==
    IF input_mapping = <<>> THEN Returned(VDict(result))
    ELSE LET key == Head(input_mapping)[1]
             one == EvaluateSingle(outputs, Head(input_mapping)[2], current_node_id, key)
         IN IF ~one.ok THEN one
            ELSE EvaluateFrom(outputs, Tail(input_mapping), current_node_id,
                              [k \in (DOMAIN result) \cup {key} |->
                                  IF k = key THEN one.value ELSE result[k]])

Evaluate(outputs, input_mapping, current_node_id) ==
    EvaluateFrom(outputs, input_mapping, current_node_id, <<>>)

-----------------------------------------------------------------------------
(* The parts of the state a specification does not exercise stay as follows *)

\* no value / no call made yet
NoValue == [t |-> "absent"]
NoResult == [ok |-> FALSE, kind |-> "not called"]
NoCall == [call |-> "none"]

IdleEval ==
    /\ ev_call = "none"
    /\ ev_outputs = <<>>
    /\ ev_mapping = UnknownMapping
    /\ ev_data = NoValue
    /\ ev_path = <<>>
    /\ ev_segs = <<>>
    /\ ev_result = NoResult
    /\ ev_results = <<>>
    /\ ev_pc = "idle"

IdleReg ==
    /\ _tools = <<>>
    /\ _versioned_tools = <<>>
    /\ reg_log = <<>>
    /\ reg_got = NoCall

IdleValidate ==
    /\ vi_schema = <<>>
    /\ vi_inputs = EmptyDict
    /\ vi_result = NoResult
    /\ vi_pc = "idle"

IdleExecute ==
    /\ workflow = [nodes |-> <<>>, final_output |-> VNull]
    /\ draft_override = VNull
    /\ run_model = VNull
    /\ trace_models = <<>>
    /\ nodes = <<>>
    /\ node_index = 0
    /\ node_outputs = <<>>
    /\ traces = <<>>
    /\ total_cost = VNull
    /\ returned = NoResult
    /\ tool_calls = <<>>
    /\ caught = NoValue
    /\ pc = "idle"

IdleEngine == IdleExecute /\ runs = <<>>

-----------------------------------------------------------------------------
(* ToolRegistry *)

\* Python None where a string is optional
PyNone == "<None>"

\* "if version:" -- None and the empty string are both false
Truthy(str) == str # PyNone /\ str # ""

\* mutant: the latest pointer stays with the first instance registered
RegisterLatestKeepFirst(tools, tool) ==
    IF tool.tool_id \in DOMAIN tools
    THEN tools
    ELSE [id \in (DOMAIN tools) \cup {tool.tool_id} |->
             IF id = tool.tool_id THEN tool ELSE tools[id]]

\* register: self._tools[tool.tool_id] = tool
RegisterLatest(tools, tool) ==
    [id \in (DOMAIN tools) \cup {tool.tool_id} |->
        IF id = tool.tool_id THEN tool ELSE tools[id]]

\* mutant: the version table of the tool id is started afresh on every register
RegisterVersionedAfresh(versioned, tool) ==
    [id \in (DOMAIN versioned) \cup {tool.tool_id} |->
        IF id = tool.tool_id THEN (tool.version :> tool) ELSE versioned[id]]

\* mutant: register() leaves the versioned map alone
RegisterVersionedNever(versioned, tool) == versioned

\* register: self._versioned_tools[tool.tool_id][tool.version] = tool
RegisterVersioned(versioned, tool) ==
    LET old == IF tool.tool_id \in DOMAIN versioned THEN versioned[tool.tool_id] ELSE <<>>
    IN [id \in (DOMAIN versioned) \cup {tool.tool_id} |->
           IF id = tool.tool_id
           THEN [v \in (DOMAIN old) \cup {tool.version} |->
                    IF v = tool.version THEN tool ELSE old[v]]
           ELSE versioned[id]]

ValueError == [ok |-> FALSE, kind |-> "ValueError"]

\* mutant: a version that is not registered falls back to the latest instance
RegistryGetFallsBack(tools, versioned, tool_id, version) ==
    LET versions == IF tool_id \in DOMAIN versioned THEN versioned[tool_id] ELSE <<>>
    IN IF Truthy(version) /\ version \in DOMAIN versions
       THEN Returned(versions[version])
       ELSE IF tool_id \in DOMAIN tools
            THEN Returned(tools[tool_id])
            ELSE WorkflowError("TOOL_NOT_FOUND", [tool_id |-> tool_id], FALSE)

\* ToolRegistry.get(tool_id, version)
RegistryGet(tools, versioned, tool_id, version) ==
    IF Truthy(version)
    THEN LET versions == IF tool_id \in DOMAIN versioned THEN versioned[tool_id] ELSE <<>>
         IN IF version \in DOMAIN versions
            THEN Returned(versions[version])
            ELSE WorkflowError("TOOL_NOT_FOUND", [tool_id |-> tool_id, version |-> version], FALSE)
    ELSE IF tool_id \in DOMAIN tools
         THEN Returned(tools[tool_id])
         ELSE WorkflowError("TOOL_NOT_FOUND", [tool_id |-> tool_id], FALSE)

\* ToolRegistry.exists(tool_id, version)
RegistryExists(tools, versioned, tool_id, version) ==
    RegistryGet(tools, versioned, tool_id, version).ok

\* the most register() calls of one behaviour
MaxRegister == 3

RegToolIds == {"x", "y", ""}
RegVersions == {"1.0", "2.0"}
GetToolIds == {"x", "y", "z"}
GetVersions == {PyNone, "1.0", "2.0", "3.0"}

\* ToolRegistry.__init__
InitReg ==
    /\ _tools = <<>>
    /\ _versioned_tools = <<>>
    /\ reg_log = <<>>
    /\ reg_got = NoCall

\* mutant: register() writes the latest pointer before it looks at the tool id
RegisterWritesFirst ==
    /\ Len(reg_log) < MaxRegister
    /\ \E id \in RegToolIds, ver \in RegVersions :
          LET tool == [obj |-> Len(reg_log) + 1, tool_id |-> id, version |-> ver] IN
          /\ reg_log' = Append(reg_log, tool)
          /\ _tools' = RegisterLatest(_tools, tool)
          /\ IF tool.tool_id = ""
             THEN /\ reg_got' = [call |-> "register", result |-> ValueError]
                  /\ UNCHANGED _versioned_tools
             ELSE /\ _versioned_tools' = RegisterVersioned(_versioned_tools, tool)
                  /\ reg_got' = [call |-> "register", result |-> Returned(PyNone)]

\* tool_registry.register(tool), tool a new instance
Register ==
    /\ Len(reg_log) < MaxRegister
    /\ \E id \in RegToolIds, ver \in RegVersions :
          LET tool == [obj |-> Len(reg_log) + 1, tool_id |-> id, version |-> ver] IN
          /\ reg_log' = Append(reg_log, tool)
          /\ IF tool.tool_id = ""
             THEN /\ reg_got' = [call |-> "register", result |-> ValueError]
                  /\ UNCHANGED <<_tools, _versioned_tools>>
             ELSE /\ _tools' = RegisterLatest(_tools, tool)
                  /\ _versioned_tools' = RegisterVersioned(_versioned_tools, tool)
                  /\ reg_got' = [call |-> "register", result |-> Returned(PyNone)]

\* tool_registry.get(tool_id, version)
Get ==
    /\ \E id \in GetToolIds, ver \in GetVersions :
          reg_got' = [call |-> "get", tool_id |-> id, version |-> ver,
                      result |-> RegistryGet(_tools, _versioned_tools, id, ver)]
    /\ UNCHANGED <<_tools, _versioned_tools, reg_log>>

\* tool_registry.exists(tool_id, version)
Exists ==
    /\ \E id \in GetToolIds, ver \in GetVersions :
          reg_got' = [call |-> "exists", tool_id |-> id, version |-> ver,
                      result |-> Returned(RegistryExists(_tools, _versioned_tools, id, ver))]
    /\ UNCHANGED <<_tools, _versioned_tools, reg_log>>

\* tool_registry.list_all(), and likewise list_by_category and
\* get_categories: a comprehension over self._tools.values()
ListAll ==
    /\ reg_got' = [call |-> "list_all",
                   result |-> Returned({_tools[id] : id \in DOMAIN _tools})]
    /\ UNCHANGED <<_tools, _versioned_tools, reg_log>>

-----------------------------------------------------------------------------
(* BaseTool.validate_inputs *)

\* ToolParameter(name, type, required = True, default = None)
ToolParameter(name, type, required, default) ==
    [name |-> name, type |-> type, required |-> required, default |-> default]

ToolParameterType == {"string", "integer", "number", "boolean", "array", "object"}

\* BaseTool._check_type: isinstance(value, type_map[expected_type]); a Python
\* bool is an int
CheckType(value, expected_type) ==
    CASE expected_type = "string" -> value.t = "str"
      [] expected_type = "integer" -> value.t \in {"int", "bool"}
      [] expected_type = "number" -> value.t \in {"int", "bool", "float"}
      [] expected_type = "boolean" -> value.t = "bool"
      [] expected_type = "array" -> value.t = "list"
      [] expected_type = "object" -> value.t = "dict"
      [] OTHER -> TRUE

\* type(value).__name__
TypeName(value) ==
    CASE value.t = "str" -> "str" [] value.t = "int" -> "int" [] value.t = "bool" -> "bool"
      [] value.t = "float" -> "float" [] value.t = "list" -> "list" [] value.t = "dict" -> "dict"
      [] value.t = "null" -> "NoneType"

\* bool(value) of a JSON value
PyTruthy(value) ==
    CASE value.t = "null" -> FALSE
      [] value.t = "bool" -> value.b
      [] value.t = "int" -> value.i # 0
      [] value.t = "str" -> value.s # <<>>
      [] value.t = "list" -> value.l # <<>>
      [] value.t = "dict" -> DOMAIN value.d # {}
      [] OTHER -> TRUE

\* inputs.get(name)
DictGet(inputs, name) == IF name \in DOMAIN inputs.d THEN inputs.d[name] ELSE VNull

MissingInput(tool_id, param) ==
    WorkflowError("TOOL_INPUT_INVALID", [tool_id |-> tool_id, param |-> param.name], FALSE)

InvalidType(tool_id, param, value) ==
    WorkflowError("TOOL_INPUT_INVALID",
                  [tool_id |-> tool_id, param |-> param.name,
                   expected_type |-> param.type, actual_type |-> TypeName(value)], FALSE)

\* the value validate_inputs goes on with for one parameter: the raw value,
\* or the default of an optional parameter whose raw value is None
ValueOrDefault(param, raw) ==
    IF IsNone(raw) /\ ~param.required THEN param.default ELSE raw

\* mutant: a missing required parameter takes its default like an optional one
RECURSIVE ValidateFromLenient(_, _, _, _)
ValidateFromLenient(tool_id, input_schema, inputs, validated) ==
    IF input_schema = <<>> THEN Returned(VDict(validated))
    ELSE LET param == Head(input_schema)
             raw == DictGet(inputs, param.name)
             value == IF IsNone(raw) THEN param.default ELSE raw
         IN IF ~IsNone(value) /\ ~CheckType(value, param.type)
            THEN InvalidType(tool_id, param, value)
            ELSE ValidateFromLenient(tool_id, Tail(input_schema), inputs,
                     [k \in (DOMAIN validated) \cup {param.name} |->
                         IF k = param.name THEN value ELSE validated[k]])

\* the loop "for param in self.input_schema" from the current parameter on
RECURSIVE ValidateFrom(_, _, _, _)
ValidateFrom(tool_id, input_schema, inputs, validated) ==
    IF input_schema = <<>> THEN Returned(VDict(validated))
    ELSE LET param == Head(input_schema)
             raw == DictGet(inputs, param.name)
             value == ValueOrDefault(param, raw)
         IN IF IsNone(raw) /\ param.required
            THEN MissingInput(tool_id, param)
            ELSE IF ~IsNone(value) /\ ~CheckType(value, param.type)
            THEN InvalidType(tool_id, param, value)
            ELSE ValidateFrom(tool_id, Tail(input_schema), inputs,
                     [k \in (DOMAIN validated) \cup {param.name} |->
                         IF k = param.name THEN value ELSE validated[k]])

\* BaseTool.validate_inputs(inputs) of a tool with this id and input_schema
ValidateInputs(tool_id, input_schema, inputs) ==
    ValidateFrom(tool_id, input_schema, inputs, <<>>)

-----------------------------------------------------------------------------
(* Inputs of the evaluator calls *)

\* ".".join(segs): how a path string is written from its segments
RECURSIVE JoinAll(_)
JoinAll(segs) ==
    IF segs = <<>> THEN <<>>
    ELSE IF Len(segs) = 1 THEN segs[1]
    ELSE segs[1] \o Dot \o JoinAll(Tail(segs))

\* {"meta": {"chars": 42}}
DataMeta == VDict(K_meta :> VDict(K_chars :> VInt(42)))
\* {"items": [{"name": "a"}]}
DataItems == VDict(K_items :> VList(<<VDict(K_name :> VStr(K_a))>>))
\* {"a": 1}
DataA == VDict(K_a :> VInt(1))
\* {"0": "a", "items": [1, [1, 2]], "1": null}
DataDigitKeys == VDict((K_0 :> VStr(K_a)) @@ (K_items :> VList(<<VInt(1), VList(<<VInt(1), VInt(2)>>)>>))
                       @@ (K_1 :> VNull))
\* {"result": null, "meta": {"chars": null}, "": {"a": 1}}
DataNulls == VDict((K_result :> VNull) @@ (K_meta :> VDict(K_chars :> VNull))
                   @@ (<<>> :> DataA))
\* {"result": {"x": 1}}
DataResultX == VDict(K_result :> VDict(K_x :> VInt(1)))

PathData == {DataMeta, DataItems, DataA, DataDigitKeys, DataNulls, DataResultX,
             VList(<<VInt(1), DataA>>), VInt(7), VStr(K_a), VNull}

\* the segment lists the path strings are written from; <<>> is the empty
\* path; no other list joins to the empty string
PathSegs == {<<>>,
             <<K_meta>>, <<K_meta, K_chars>>, <<K_meta, K_chars, K_a>>,
             <<K_items>>, <<K_items, K_0>>, <<K_items, K_0, K_name>>,
             <<K_items, K_1>>, <<K_items, K_2>>, <<K_items, K_01>>,
             <<K_items, K_1, K_0>>, <<K_items, K_1, K_2>>, <<K_items, K_name>>,
             <<K_missing, K_x>>, <<K_a>>, <<K_a, K_x>>, <<K_a, K_0>>,
             <<K_0>>, <<K_1>>, <<K_1, K_a>>, <<K_01>>,
             <<K_result>>, <<K_result, K_x>>,
             <<K_meta, <<>>>>, <<<<>>, K_a>>, <<<<>>, <<>>>>}

\* node ids are the positions 1, 2, 3 of the nodes
EvNodeOutputs == {<<>>,
                  (1 :> DataMeta),
                  (1 :> DataItems) @@ (2 :> DataA),
                  (1 :> DataNulls) @@ (2 :> DataDigitKeys),
                  (2 :> DataResultX)}

EvNodeIds == {1, 2, 3}

\* the node whose input key "x" is being evaluated
EvCurrentNode == 3

EvConstants == {VInt(5), VNull, VStr(K_a), DataA}

\* the mappings of one input key, and the input mappings of up to two keys
EvMappings ==
    {ConstantMapping(VInt(5)), ConstantMapping(VNull), UnknownMapping,
     FromNodeMapping(1, Join2(K_meta, K_chars)), FromNodeMapping(2, Join2(K_result, K_x)),
     FromNodeMapping(3, K_a)}

EvInputMappings ==
    {<<>>} \cup {<<<<K_x, a>>>> : a \in EvMappings}
           \cup {<<<<K_x, a>>, <<K_y, b>>>> : a \in EvMappings, b \in EvMappings}

\* the calls of evaluate made on one evaluator
MaxEvaluate == 2

InitEval ==
    /\ IdleReg
    /\ IdleValidate
    /\ IdleEngine
    /\ ev_pc = "start"
    /\ ev_result = NoResult
    /\ ev_results = <<>>
    /\ \/ /\ ev_call = "_get_by_path"
          /\ ev_data \in PathData
          /\ ev_segs \in PathSegs
          /\ ev_path = JoinAll(ev_segs)
          /\ ev_outputs = <<>>
          /\ ev_mapping = UnknownMapping
       \/ /\ ev_call = "_evaluate_single"
          /\ ev_outputs \in EvNodeOutputs
          /\ ev_segs \in PathSegs
          /\ ev_path = JoinAll(ev_segs)
          /\ \E n \in EvNodeIds : ev_mapping = FromNodeMapping(n, ev_path)
          /\ ev_data = NoValue
       \/ /\ ev_call = "_evaluate_single"
          /\ ev_outputs \in EvNodeOutputs
          /\ ev_segs = <<>>
          /\ ev_path = <<>>
          /\ ev_mapping \in {ConstantMapping(v) : v \in EvConstants} \cup {UnknownMapping}
          /\ ev_data = NoValue
       \/ /\ ev_call = "evaluate"
          /\ ev_outputs \in EvNodeOutputs
          /\ ev_segs = <<>>
          /\ ev_path = <<>>
          /\ ev_mapping \in EvInputMappings
          /\ ev_data = NoValue

\* evaluator._get_by_path(data, path)
GetByPathCall ==
    /\ ev_pc = "start"
    /\ ev_call = "_get_by_path"
    /\ ev_result' = Returned(GetByPath(ev_data, ev_path))
    /\ ev_results' = Append(ev_results, ev_result')
    /\ ev_pc' = "done"
    /\ UNCHANGED <<ev_call, ev_outputs, ev_mapping, ev_data, ev_path, ev_segs>>
    /\ UNCHANGED <<regVars, valVars, engineVars, concVars>>

\* MappingEvaluator(node_outputs)._evaluate_single(mapping, ...)
EvaluateSingleCall ==
    /\ ev_pc = "start"
    /\ ev_call = "_evaluate_single"
    /\ ev_result' = EvaluateSingle(ev_outputs, ev_mapping, EvCurrentNode, K_x)
    /\ ev_results' = Append(ev_results, ev_result')
    /\ ev_pc' = "done"
    /\ UNCHANGED <<ev_call, ev_outputs, ev_mapping, ev_data, ev_path, ev_segs>>
    /\ UNCHANGED <<regVars, valVars, engineVars, concVars>>

\* mutant: evaluate keeps what it evaluated in node_outputs, under the id of
\* the current node
EvaluateCallStoring ==
    /\ ev_call = "evaluate"
    /\ Len(ev_results) < MaxEvaluate
    /\ ev_result' = Evaluate(ev_outputs, ev_mapping, EvCurrentNode)
    /\ ev_results' = Append(ev_results, ev_result')
    /\ ev_outputs' = IF ev_result'.ok
                     THEN [id \in (DOMAIN ev_outputs) \cup {EvCurrentNode} |->
                              IF id = EvCurrentNode THEN ev_result'.value ELSE ev_outputs[id]]
                     ELSE ev_outputs
    /\ ev_pc' = "done"
    /\ UNCHANGED <<ev_call, ev_mapping, ev_data, ev_path, ev_segs>>
    /\ UNCHANGED <<regVars, valVars, engineVars, concVars>>

\* MappingEvaluator(node_outputs).evaluate(input_mapping, current_node_id),
\* called again and again on the same evaluator: self.node_outputs is read,
\* never written
EvaluateCall ==
    /\ ev_call = "evaluate"
    /\ Len(ev_results) < MaxEvaluate
    /\ ev_result' = Evaluate(ev_outputs, ev_mapping, EvCurrentNode)
    /\ ev_results' = Append(ev_results, ev_result')
    /\ ev_pc' = "done"
    /\ UNCHANGED <<ev_call, ev_outputs, ev_mapping, ev_data, ev_path, ev_segs>>
    /\ UNCHANGED <<regVars, valVars, engineVars, concVars>>

NextEval == GetByPathCall \/ EvaluateSingleCall \/ EvaluateCall

SpecEval == InitEval /\ [][NextEval]_vars

-----------------------------------------------------------------------------
(* validate_inputs on its own *)

K_text == <<"t", "e", "x", "t">>
K_max_length == <<"m", "a", "x", "_", "l", "e", "n", "g", "t", "h">>
K_extra == <<"e", "x", "t", "r", "a">>
S_English == <<"E", "n", "g", "l", "i", "s", "h">>

\* the first declared parameter: every type, required or not, three defaults
ViFirstParams ==
    {ToolParameter(K_text, ty, req, def) :
        ty \in ToolParameterType, req \in BOOLEAN, def \in {VNull, VStr(S_English), VInt(100)}}

\* the second declared parameter, if any
ViSecondParams ==
    {ToolParameter(K_max_length, ty, req, def) :
        ty \in {"integer", "string"}, req \in BOOLEAN, def \in {VNull, VInt(100)}}

ViSchemas == {<<p>> : p \in ViFirstParams} \cup {<<p, q>> : p \in ViFirstParams, q \in ViSecondParams}

ViAbsent == [t |-> "absent"]

\* a raw inputs dict from the value of each key, ViAbsent for a key left out
ViDict(text, max_length, extra) ==
    LET given == (K_text :> text) @@ (K_max_length :> max_length) @@ (K_extra :> extra)
    IN VDict([k \in {n \in DOMAIN given : given[n] # ViAbsent} |-> given[k]])

ViInputs ==
    {ViDict(a, b, c) :
        a \in {ViAbsent, VNull, VStr(K_a), VInt(1), VBool(TRUE), VFloat, VList(<<>>), EmptyDict},
        b \in {ViAbsent, VInt(5), VStr(K_a)},
        c \in {ViAbsent, VInt(1)}}

ViToolId == "my.custom_tool"

InitValidate ==
    /\ IdleEval
    /\ IdleReg
    /\ IdleEngine
    /\ vi_schema \in ViSchemas
    /\ vi_inputs \in ViInputs
    /\ vi_result = NoResult
    /\ vi_pc = "start"

\* tool.validate_inputs(inputs)
ValidateInputsCall ==
    /\ vi_pc = "start"
    /\ vi_result' = ValidateInputs(ViToolId, vi_schema, vi_inputs)
    /\ vi_pc' = "done"
    /\ UNCHANGED <<vi_schema, vi_inputs>>
    /\ UNCHANGED <<evalVars, regVars, engineVars, concVars>>

NextValidate == ValidateInputsCall

SpecValidate == InitValidate /\ [][NextValidate]_vars

-----------------------------------------------------------------------------
(* The registry on its own: any sequence of register, get and exists *)

InitRegistry == InitReg /\ IdleEval /\ IdleValidate /\ IdleEngine

NextRegistry ==
    \/ Register /\ UNCHANGED <<evalVars, valVars, engineVars, concVars>>
    \/ Get /\ UNCHANGED <<evalVars, valVars, engineVars, concVars>>
    \/ Exists /\ UNCHANGED <<evalVars, valVars, engineVars, concVars>>
    \/ ListAll /\ UNCHANGED <<evalVars, valVars, engineVars, concVars>>

SpecRegistry == InitRegistry /\ [][NextRegistry]_vars

-----------------------------------------------------------------------------
(* Tools: instances as the registry holds them.  cls is the class whose    *)
(* execute() the instance runs.                                            *)

K_target_language == <<"t", "a", "r", "g", "e", "t", "_", "l", "a", "n", "g", "u", "a", "g", "e">>
K_file_ref == <<"f", "i", "l", "e", "_", "r", "e", "f">>
K_prompt == <<"p", "r", "o", "m", "p", "t">>
K_pages == <<"p", "a", "g", "e", "s">>
K_output_format == <<"o", "u", "t", "p", "u", "t", "_", "f", "o", "r", "m", "a", "t">>
K_data == <<"d", "a", "t", "a">>
K_mapping == <<"m", "a", "p", "p", "i", "n", "g">>
K_raw_response == <<"r", "a", "w", "_", "r", "e", "s", "p", "o", "n", "s", "e">>
K_token_usage == <<"t", "o", "k", "e", "n", "_", "u", "s", "a", "g", "e">>
K_total_tokens == <<"t", "o", "t", "a", "l", "_", "t", "o", "k", "e", "n", "s">>
K_prompt_tokens == <<"p", "r", "o", "m", "p", "t", "_", "t", "o", "k", "e", "n", "s">>
K_completion_tokens ==
    <<"c", "o", "m", "p", "l", "e", "t", "i", "o", "n", "_", "t", "o", "k", "e", "n", "s">>
K_input_tokens == <<"i", "n", "p", "u", "t", "_", "t", "o", "k", "e", "n", "s">>
K_output_tokens == <<"o", "u", "t", "p", "u", "t", "_", "t", "o", "k", "e", "n", "s">>
K_nodes == <<"n", "o", "d", "e", "s">>
K_node_id == <<"n", "o", "d", "e", "_", "i", "d">>
K_tool_id == <<"t", "o", "o", "l", "_", "i", "d">>
K_out == <<"o", "u", "t">>
K_late == <<"l", "a", "t", "e">>
K_gone == <<"g", "o", "n", "e">>
S_all == <<"a", "l", "l">>
S_json == <<"j", "s", "o", "n">>

SummarizeTool ==
    [cls |-> "ResponsesLLMTool", tool_id |-> "llm.summarize", version |-> "1.0.0",
     input_schema |-> <<ToolParameter(K_text, "string", TRUE, VNull)>>]

TranslateTool ==
    [cls |-> "ResponsesLLMTool", tool_id |-> "llm.translate", version |-> "1.0.0",
     input_schema |-> <<ToolParameter(K_text, "string", TRUE, VNull),
                        ToolParameter(K_target_language, "string", FALSE, VStr(S_English))>>]

AnalyzeTool ==
    [cls |-> "ResponsesLLMTool", tool_id |-> "llm.analyze", version |-> "1.0.0",
     input_schema |-> <<ToolParameter(K_text, "string", TRUE, VNull)>>]

PDFVisionExtractTool ==
    [cls |-> "PDFVisionExtractTool", tool_id |-> "pdf.vision_extract", version |-> "1.0.0",
     input_schema |-> <<ToolParameter(K_file_ref, "string", TRUE, VNull),
                        ToolParameter(K_prompt, "string", TRUE, VNull),
                        ToolParameter(K_pages, "string", FALSE, VStr(K_1)),
                        ToolParameter(K_output_format, "string", FALSE, VStr(S_json))>>]

\* defined in the repository, not in BUILTIN_TOOLS
DataMapTool ==
    [cls |-> "DataMapTool", tool_id |-> "data.map", version |-> "1.0.0",
     input_schema |-> <<ToolParameter(K_data, "object", TRUE, VNull),
                        ToolParameter(K_mapping, "object", TRUE, VNull)>>]

\* a tool written on the LLMTool base class, as its docstring shows
MySummaryTool ==
    [cls |-> "LLMTool", tool_id |-> "llm.my_summary", version |-> "1.0.0",
     input_schema |-> <<ToolParameter(K_text, "string", TRUE, VNull)>>]

BUILTIN_TOOLS == <<PDFVisionExtractTool, SummarizeTool, TranslateTool, AnalyzeTool>>

\* init_builtin_tools, from the registry [tools, versioned] on: every tool
\* of the list that does not exist yet is registered
RECURSIVE InitBuiltinTools(_, _)
InitBuiltinTools(registry, tools) ==
    IF tools = <<>> THEN registry
    ELSE LET tool == Head(tools) IN
         InitBuiltinTools(
             IF RegistryExists(registry.tools, registry.versioned, tool.tool_id, tool.version)
             THEN registry
             ELSE [tools |-> RegisterLatest(registry.tools, tool),
                   versioned |-> RegisterVersioned(registry.versioned, tool)],
             Tail(tools))

\* the registry of a started application, and the one of an application
\* that also registered the data mapper and a tool of its own
BuiltinRegistry == InitBuiltinTools([tools |-> <<>>, versioned |-> <<>>], BUILTIN_TOOLS)
ExtendedRegistry == InitBuiltinTools(BuiltinRegistry, <<DataMapTool, MySummaryTool>>)
Registries == {BuiltinRegistry, ExtendedRegistry}

-----------------------------------------------------------------------------
(* What an LLM endpoint answers to one request: no answer before the       *)
(* timeout, no connection, a non-200 status, or a 200 with a text and      *)
(* token counts                                                            *)

T_plain == <<"h", "i">>
T_object == <<"{", "\"", "x", "\"", ":", "1", "}">>
T_array == <<"[", "1", "]">>

LlmReplies ==
    {[timeout |-> TRUE],
     [timeout |-> FALSE],
     [timeout |-> FALSE, status_code |-> 429],
     [timeout |-> FALSE, status_code |-> 200, text |-> T_plain, prompt |-> 6, completion |-> 4],
     [timeout |-> FALSE, status_code |-> 200, text |-> T_object, prompt |-> 6, completion |-> 4],
     [timeout |-> FALSE, status_code |-> 200, text |-> T_array, prompt |-> 1, completion |-> 2]}

\* client.post raised instead of returning a response: httpx.TimeoutException,
\* or another httpx.RequestError when the connection fails
Unanswered(reply) == "status_code" \notin DOMAIN reply

PostException(reply) == IF reply.timeout THEN "TimeoutException" ELSE "ConnectError"

\* json.loads on the texts of LlmReplies
JsonLoads(text) ==
    CASE text = T_object -> Returned(VDict(K_x :> VInt(1)))
      [] text = T_array -> Returned(VList(<<VInt(1)>>))
      [] OTHER -> PyException("JSONDecodeError")

\* what execute() leaves behind: its return value or exception, and
\* context["token_usage"] if it wrote one
Executed(result, token_usage) == [result |-> result, token_usage |-> token_usage]

\* node.prompt is None or a NodePrompt; context["prompt"] exists when it is set
ForceJson(prompt) == prompt # VNull /\ prompt.force_json

(* ResponsesLLMTool.execute, with the API key and base configured *)
ResponsesLLMToolExecute(inputs, prompt, reply) ==
    IF Unanswered(reply) THEN Executed(PyException(PostException(reply)), NoValue)
    ELSE IF reply.status_code # 200
    THEN Executed(WorkflowError("LLM_API_ERROR",
                                [status_code |-> reply.status_code, model |-> "gpt-5"], FALSE),
                  NoValue)
    ELSE LET usage == VDict((K_input_tokens :> VInt(reply.prompt))
                            @@ (K_output_tokens :> VInt(reply.completion))
                            @@ (K_total_tokens :> VInt(reply.prompt + reply.completion)))
             raw_text == reply.text
             parsed == IF raw_text # <<>> THEN JsonLoads(raw_text) ELSE Returned(EmptyDict)
         IN IF ForceJson(prompt)
            THEN IF parsed.ok
                 THEN Executed(Returned(VDict(K_result :> parsed.value)), usage)
                 ELSE Executed(Returned(VDict(K_result :> VDict(K_raw_response :> VStr(raw_text)))),
                               usage)
            ELSE Executed(Returned(VDict(K_result :> VStr(raw_text))), usage)

(* LLMService.chat_completion *)
ChatCompletion(reply) ==
    IF Unanswered(reply)
    THEN IF reply.timeout
         THEN WorkflowError("LLM_API_ERROR", <<>>, TRUE)
         ELSE WorkflowError("LLM_API_ERROR", [error |-> PostException(reply)], TRUE)
    ELSE IF reply.status_code # 200
    THEN WorkflowError("LLM_API_ERROR", [status_code |-> reply.status_code], FALSE)
    ELSE Returned([content |-> reply.text,
                   usage |-> VDict((K_prompt_tokens :> VInt(reply.prompt))
                                   @@ (K_completion_tokens :> VInt(reply.completion))
                                   @@ (K_total_tokens :> VInt(reply.prompt + reply.completion)))])

\* LLMTool.execute from the response of chat_completion on
LLMToolExecuteResponse(response, prompt) ==
    IF ~response.ok THEN Executed(response, NoValue)
    ELSE LET content == response.value.content
             parsed == JsonLoads(content)
         IN IF ForceJson(prompt) /\ parsed.ok
            THEN Executed(Returned(parsed.value), response.value.usage)
            ELSE Executed(Returned(VDict(K_result :> VStr(content))), response.value.usage)

(* LLMTool.execute, with context["llm_service"] available *)
LLMToolExecute(inputs, prompt, reply) ==
    LLMToolExecuteResponse(ChatCompletion(reply), prompt)

(* DataMapTool._get_by_path: dict.get walks on with None for a missing key *)
RECURSIVE DataMapWalk(_, _)
DataMapWalk(value, keys) ==
    IF keys = <<>> THEN value
    ELSE LET key == Head(keys) IN
         IF value.t = "dict"
         THEN DataMapWalk(DictGet(value, key), Tail(keys))
         ELSE IF value.t = "list" /\ IsDigit(key)
              THEN LET idx == ToInt(key) IN
                   DataMapWalk(IF 0 <= idx /\ idx < Len(value.l) THEN value.l[idx + 1] ELSE VNull,
                               Tail(keys))
              ELSE VNull

DataMapGetByPath(data, path) ==
    IF path = <<>> THEN data ELSE DataMapWalk(data, Split(path))

\* inputs.get(name, {})
DictGetOrEmpty(inputs, name) == IF name \in DOMAIN inputs.d THEN inputs.d[name] ELSE EmptyDict

(* DataMapTool.execute: a path that is falsy selects the whole data, any   *)
(* other path that is not a string has no split()                          *)
DataMapToolExecute(inputs) ==
    LET data == DictGetOrEmpty(inputs, K_data)
        mapping == DictGetOrEmpty(inputs, K_mapping)
    IN IF mapping.t # "dict"
       THEN Executed(PyException("AttributeError"), NoValue)
       ELSE IF \E new_key \in DOMAIN mapping.d :
                  PyTruthy(mapping.d[new_key]) /\ mapping.d[new_key].t # "str"
       THEN Executed(PyException("AttributeError"), NoValue)
       ELSE Executed(Returned(VDict(K_result :>
                VDict([new_key \in DOMAIN mapping.d |->
                          IF PyTruthy(mapping.d[new_key])
                          THEN DataMapGetByPath(data, mapping.d[new_key].s)
                          ELSE data]))), NoValue)

\* tool.execute(validated_inputs, context) by the class of the tool
ToolExecute(tool, inputs, prompt, reply) ==
    CASE tool.cls = "ResponsesLLMTool" -> ResponsesLLMToolExecute(inputs, prompt, reply)
      [] tool.cls = "LLMTool" -> LLMToolExecute(inputs, prompt, reply)
      [] tool.cls = "DataMapTool" -> DataMapToolExecute(inputs)

\* mutant: run hands the raw inputs to execute and validates nothing
ToolRunUnvalidated(tool, inputs, prompt, reply) ==
    [executed |-> TRUE, steps |-> <<"execute">>, execute_inputs |-> inputs,
     request |-> IF tool.cls = "DataMapTool" THEN NoValue ELSE reply]
    @@ ToolExecute(tool, inputs, prompt, reply)

\* BaseTool.run once validate_inputs has returned or raised.  steps lists
\* the methods run entered, in order; execute_inputs is what execute was
\* given; request is the reply to the one request an LLM tool sends
ToolRunValidated(tool, validated_inputs, prompt, reply) ==
    IF ~validated_inputs.ok
    THEN [result |-> validated_inputs, token_usage |-> NoValue, executed |-> FALSE,
          steps |-> <<"validate_inputs">>, execute_inputs |-> NoValue, request |-> NoValue]
    ELSE [executed |-> TRUE, steps |-> <<"validate_inputs", "execute">>,
          execute_inputs |-> validated_inputs.value,
          request |-> IF tool.cls = "DataMapTool" THEN NoValue ELSE reply]
         @@ ToolExecute(tool, validated_inputs.value, prompt, reply)

(* BaseTool.run: validate_inputs, then execute on the validated inputs;    *)
(* executed tells whether execute was entered                              *)
ToolRun(tool, inputs, prompt, reply) ==
    ToolRunValidated(tool, ValidateInputs(tool.tool_id, tool.input_schema, inputs),
                     prompt, reply)

-----------------------------------------------------------------------------
(* WorkflowEngine *)

(* NodeTraceError(code, message, details); the message is not kept *)
NodeTraceError(code, details) == [code |-> code, details |-> details]

\* str(e) of an exception that is not a WorkflowError: the text its class
\* was raised with
ExceptionText(name) ==
    CASE name = "TimeoutException" -> "timed out"
      [] name = "ConnectError" -> "All connection attempts failed"
      [] name = "AttributeError" -> "object has no attribute"
      [] OTHER -> name

\* NodeTraceError(code, message = str(e), details) of "except Exception"
UnexpectedError(code, raised) ==
    [code |-> code, message |-> ExceptionText(raised.exception),
     details |-> [exception |-> raised.exception]]

\* mutant: an unexpected exception is reported with a fixed message
ErrorOfFixedMessage(raised, unexpected_code) ==
    IF raised.kind = "WorkflowError"
    THEN NodeTraceError(raised.code, raised.details)
    ELSE [code |-> unexpected_code, message |-> "Execution failed",
          details |-> [exception |-> raised.exception]]

\* the NodeTraceError the two except clauses build from what was raised; the
\* message of a WorkflowError is not kept, that of any other exception is
ErrorOf(raised, unexpected_code) ==
    IF raised.kind = "WorkflowError"
    THEN NodeTraceError(raised.code, raised.details)
    ELSE UnexpectedError(unexpected_code, raised)

\* str(n) of a natural number
RECURSIVE IntStr(_)
IntStr(n) ==
    LET digit(k) == CHOOSE c \in DigitChars : DigitVal(c) = k IN
    IF n < 10 THEN <<digit(n)>> ELSE IntStr(n \div 10) \o <<digit(n % 10)>>

\* the longest string _summarize_data keeps whole
max_length == 200

(* WorkflowEngine._summarize_data: raises on data without items() *)
SummarizeData(data) ==
    IF data.t # "dict" THEN PyException("AttributeError")
    ELSE Returned(VDict([key \in DOMAIN data.d |->
             LET value == data.d[key] IN
             IF value.t = "str" /\ Len(value.s) > max_length
             THEN VStr(SubSeq(value.s, 1, max_length) \o <<".", ".", ".">>)
             ELSE IF value.t = "list"
             THEN VStr(<<"<", "l", "i", "s", "t", " ", "l", "e", "n", "=">>
                       \o IntStr(Len(value.l)) \o <<">">>)
             ELSE IF value.t = "dict"
             THEN VStr(<<"<", "d", "i", "c", "t", " ", "l", "e", "n", "=">>
                       \o IntStr(Cardinality(DOMAIN value.d)) \o <<">">>)
             ELSE value]))

\* node_outputs[node_id] = output
Store(outputs, node_id, output) ==
    [id \in (DOMAIN outputs) \cup {node_id} |-> IF id = node_id THEN output ELSE outputs[id]]

NodeTrace(node, status, input_summary, output_summary, error) ==
    [node_id |-> node.node_id, tool_id |-> node.tool_id, status |-> status,
     input_summary |-> input_summary, output_summary |-> output_summary, error |-> error]

\* what _execute_node leaves behind: the trace, node_outputs afterwards, the
\* tool.run call made, if any, and the exception caught, if any
NodeDone(trace, outputs, call) ==
    [trace |-> trace, node_outputs |-> outputs, call |-> call, caught |-> NoValue]

\* the two except clauses of _execute_node; a summary not written yet is the
\* empty dict NodeTrace starts with
NodeFailed(node, outputs, input_summary, raised, call) ==
    [NodeDone(NodeTrace(node, "FAILED", input_summary, EmptyDict,
                        ErrorOf(raised, "EXECUTION_FAILED")),
              outputs, call) EXCEPT !.caught = raised]

\* the tool.run call as tool_calls keeps it
ToolCall(node, tool, actual_inputs, ran) ==
    [node_id |-> node.node_id, tool_id |-> node.tool_id, tool |-> tool,
     inputs |-> actual_inputs, steps |-> ran.steps, executed |-> ran.executed,
     execute_inputs |-> ran.execute_inputs, request |-> ran.request,
     result |-> ran.result, token_usage |-> ran.token_usage]

\* _execute_node once tool.run has returned output: the output is stored,
\* then the trace is filled in; _summarize_data may raise
ExecuteNodeStored(node, outputs, call, token_usage, output, input_summary, output_summary) ==
    IF ~output_summary.ok
    THEN NodeFailed(node, Store(outputs, node.node_id, output), input_summary.value,
                    output_summary, call)
    ELSE NodeDone(NodeTrace(node, "SUCCESS", input_summary.value,
                            IF token_usage # NoValue
                            THEN VDict(Store(output_summary.value.d, K_token_usage, token_usage))
                            ELSE output_summary.value,
                            VNull),
                  Store(outputs, node.node_id, output), call)

\* _execute_node once tool.run has returned or raised
ExecuteNodeRan(node, outputs, tool, actual_inputs, ran) ==
    IF ~ran.result.ok
    THEN NodeFailed(node, outputs, EmptyDict, ran.result,
                    ToolCall(node, tool, actual_inputs, ran))
    ELSE ExecuteNodeStored(node, outputs, ToolCall(node, tool, actual_inputs, ran),
                           ran.token_usage,
                           ran.result.value, SummarizeData(actual_inputs),
                           SummarizeData(ran.result.value))

\* _execute_node once the mapping evaluation has returned or raised
ExecuteNodeEvaluated(node, outputs, tool, actual_inputs, reply) ==
    IF ~actual_inputs.ok
    THEN NodeFailed(node, outputs, EmptyDict, actual_inputs, NoCall)
    ELSE ExecuteNodeRan(node, outputs, tool, actual_inputs.value,
                        ToolRun(tool, actual_inputs.value, node.prompt, reply))

\* _execute_node once the tool lookup has returned or raised
ExecuteNodeLookedUp(node, outputs, tool, reply) ==
    IF ~tool.ok
    THEN NodeFailed(node, outputs, EmptyDict, tool, NoCall)
    ELSE ExecuteNodeEvaluated(node, outputs, tool.value,
                              Evaluate(outputs, node.input_mapping, node.node_id), reply)

(* WorkflowEngine._execute_node from the try block on: tool lookup,        *)
(* mapping evaluation, tool.run, the store into node_outputs, then the     *)
(* trace                                                                   *)
ExecuteNode(node, outputs, tools, versioned, reply) ==
    ExecuteNodeLookedUp(node, outputs,
                        RegistryGet(tools, versioned, node.tool_id, node.version), reply)

(* RunCost *)
RunCost(tokens, prompt_tokens, completion_tokens) ==
    [tokens |-> tokens, prompt_tokens |-> prompt_tokens,
     completion_tokens |-> completion_tokens]

\* usage.get(key, 0)
UsageGet(usage, key) == IF key \in DOMAIN usage.d THEN usage.d[key].i ELSE 0

\* execute, "token usage aggregation": the three += on total_cost
AddUsage(cost, usage) ==
    RunCost(cost.tokens + UsageGet(usage, K_total_tokens),
            cost.prompt_tokens + UsageGet(usage, K_prompt_tokens),
            cost.completion_tokens + UsageGet(usage, K_completion_tokens))

(* WorkflowEngine._map_final_output: mapping is an ordered dict, here a    *)
(* sequence of <<key, [node_id, path]>>                                    *)
RECURSIVE MapFinalOutput(_, _, _)
MapFinalOutput(mapping, outputs, result) ==
    IF mapping = <<>> THEN VDict(result)
    ELSE LET key == Head(mapping)[1]
             node_id == Head(mapping)[2].node_id
             path == Head(mapping)[2].path
         IN MapFinalOutput(Tail(mapping), outputs,
                IF node_id \in DOMAIN outputs
                THEN Store(result, key, GetByPath(outputs[node_id], path))
                ELSE result)

\* a node object has attributes; a node of a draft override is a plain dict
IsNodeObject(node) == "t" \notin DOMAIN node

\* the row execute starts from: create_run stored it with status PENDING
NewRunModel ==
    [status |-> "PENDING", error_json |-> VNull, node_outputs_json |-> VNull,
     final_output_json |-> VNull, total_tokens |-> 0, prompt_tokens |-> 0,
     completion_tokens |-> 0]

\* node_outputs as the JSON object persisted and returned
OutputsJson(outputs) == [t |-> "dict", d |-> outputs]

\* the run is marked FAILED and execute returns: the fail-fast branch and
\* the "except Exception" branch of execute write the same fields
RunFails(error, outputs, trs) ==
    /\ run_model' = [run_model EXCEPT !.status = "FAILED", !.error_json = error,
                                      !.node_outputs_json = OutputsJson(outputs)]
    /\ returned' = Returned([status |-> "FAILED", node_outputs |-> OutputsJson(outputs),
                             final_output |-> VNull, error |-> error, traces |-> trs,
                             cost |-> total_cost])
    /\ pc' = "done"

\* mutant: execute never writes RUNNING
BeginKeepsPending ==
    /\ pc = "created"
    /\ node_outputs' = <<>>
    /\ traces' = <<>>
    /\ total_cost' = RunCost(0, 0, 0)
    /\ nodes' = IF PyTruthy(draft_override) /\ K_nodes \in DOMAIN draft_override.d
                THEN draft_override.d[K_nodes].l
                ELSE workflow.nodes
    /\ node_index' = 1
    /\ pc' = "loop"
    /\ UNCHANGED <<workflow, draft_override, run_model, trace_models, returned, tool_calls, caught>>

(* execute, up to the loop: locals, RUNNING is committed, the node list is *)
(* chosen                                                                  *)
Begin ==
    /\ pc = "created"
    /\ node_outputs' = <<>>
    /\ traces' = <<>>
    /\ total_cost' = RunCost(0, 0, 0)
    /\ run_model' = [run_model EXCEPT !.status = "RUNNING"]
    /\ nodes' = IF PyTruthy(draft_override) /\ K_nodes \in DOMAIN draft_override.d
                THEN draft_override.d[K_nodes].l
                ELSE workflow.nodes
    /\ node_index' = 1
    /\ pc' = "loop"
    /\ UNCHANGED <<workflow, draft_override, trace_models, returned, tool_calls, caught>>

\* mutant: execute has no "except Exception": the AttributeError of a node
\* that is a dict leaves execute, and the run row stays RUNNING
NodeBeginUncaught ==
    /\ pc = "loop"
    /\ node_index <= Len(nodes)
    /\ LET node == nodes[node_index] IN
       IF IsNodeObject(node)
       THEN /\ trace_models' = Append(trace_models,
                                  [node_id |-> node.node_id, tool_id |-> node.tool_id,
                                   status |-> "RUNNING", error_json |-> VNull])
            /\ pc' = "node"
            /\ UNCHANGED <<run_model, returned>>
       ELSE /\ returned' = PyException("AttributeError")
            /\ pc' = "raised"
            /\ UNCHANGED <<run_model, trace_models>>
    /\ UNCHANGED <<workflow, draft_override, nodes, node_index, node_outputs, traces,
                   total_cost, tool_calls, caught>>

(* _execute_node before its try block: the RUNNING trace is committed.  A  *)
(* node that is a dict has no node_id attribute: the AttributeError leaves *)
(* _execute_node and is caught by execute                                  *)
NodeBegin ==
    /\ pc = "loop"
    /\ node_index <= Len(nodes)
    /\ LET node == nodes[node_index] IN
       IF IsNodeObject(node)
       THEN /\ trace_models' = Append(trace_models,
                                  [node_id |-> node.node_id, tool_id |-> node.tool_id,
                                   status |-> "RUNNING", error_json |-> VNull])
            /\ pc' = "node"
            /\ UNCHANGED <<run_model, returned>>
       ELSE /\ RunFails(UnexpectedError("INTERNAL_ERROR", PyException("AttributeError")),
                        node_outputs, traces)
            /\ UNCHANGED trace_models
    /\ UNCHANGED <<workflow, draft_override, nodes, node_index, node_outputs, traces,
                   total_cost, tool_calls, caught>>

\* mutant: no fail-fast, a FAILED trace is appended and the loop goes on
NodeReturnedKeepsGoing(done) ==
    /\ trace_models' = [trace_models EXCEPT ![Len(trace_models)] =
                           [@ EXCEPT !.status = done.trace.status,
                                     !.error_json = done.trace.error]]
    /\ node_outputs' = done.node_outputs
    /\ traces' = Append(traces, done.trace)
    /\ tool_calls' = IF done.call = NoCall THEN tool_calls ELSE Append(tool_calls, done.call)
    /\ caught' = done.caught
    /\ node_index' = node_index + 1
    /\ pc' = "loop"
    /\ UNCHANGED <<total_cost, run_model, returned>>

\* mutant: a node whose first attempt failed is executed once more
NodeReturnedRetries(done) ==
    /\ trace_models' = [trace_models EXCEPT ![Len(trace_models)] =
                           [@ EXCEPT !.status = done.trace.status,
                                     !.error_json = done.trace.error]]
    /\ node_outputs' = done.node_outputs
    /\ traces' = Append(traces, done.trace)
    /\ tool_calls' = IF done.call = NoCall THEN tool_calls ELSE Append(tool_calls, done.call)
    /\ caught' = done.caught
    /\ IF done.trace.status = "FAILED" /\ Len(traces) >= node_index
       THEN /\ RunFails(done.trace.error, done.node_outputs, Append(traces, done.trace))
            /\ UNCHANGED <<total_cost, node_index>>
       ELSE /\ node_index' = IF done.trace.status = "FAILED" THEN node_index ELSE node_index + 1
            /\ pc' = "loop"
            /\ UNCHANGED <<total_cost, run_model, returned>>

\* the loop body of execute once _execute_node has returned: the trace is
\* appended, then fail-fast or token aggregation
NodeReturned(done) ==
    LET node_trace == done.trace
        usage == IF K_token_usage \in DOMAIN node_trace.output_summary.d
                 THEN node_trace.output_summary.d[K_token_usage] ELSE VNull
    IN /\ trace_models' = [trace_models EXCEPT ![Len(trace_models)] =
                              [@ EXCEPT !.status = node_trace.status,
                                        !.error_json = node_trace.error]]
       /\ node_outputs' = done.node_outputs
       /\ traces' = Append(traces, node_trace)
       /\ tool_calls' = IF done.call = NoCall THEN tool_calls
                        ELSE Append(tool_calls, done.call)
       /\ caught' = done.caught
       /\ IF node_trace.status = "FAILED"
          THEN /\ RunFails(node_trace.error, done.node_outputs, Append(traces, node_trace))
               /\ UNCHANGED <<total_cost, node_index>>
          ELSE IF ~PyTruthy(usage)
          THEN /\ node_index' = node_index + 1
               /\ pc' = "loop"
               /\ UNCHANGED <<total_cost, run_model, returned>>
          ELSE IF usage.t = "dict"
          THEN /\ total_cost' = AddUsage(total_cost, usage)
               /\ node_index' = node_index + 1
               /\ pc' = "loop"
               /\ UNCHANGED <<run_model, returned>>
          ELSE /\ RunFails(UnexpectedError("INTERNAL_ERROR", PyException("AttributeError")),
                           done.node_outputs, Append(traces, node_trace))
               /\ UNCHANGED <<total_cost, node_index>>

(* the rest of _execute_node and of the loop body of execute: the tool is  *)
(* looked up and run against whatever the LLM endpoint replies, the trace  *)
(* is completed and appended, then fail-fast or token aggregation          *)
NodeEnd ==
    /\ pc = "node"
    /\ \E reply \in LlmReplies :
          NodeReturned(ExecuteNode(nodes[node_index], node_outputs, _tools, _versioned_tools,
                                   reply))
    /\ UNCHANGED <<workflow, draft_override, nodes>>

\* the run is marked SUCCESS and execute returns
RunSucceeds(final_output) ==
    /\ run_model' = [run_model EXCEPT !.status = "SUCCESS",
                                      !.node_outputs_json = OutputsJson(node_outputs),
                                      !.final_output_json = final_output,
                                      !.total_tokens = total_cost.tokens,
                                      !.prompt_tokens = total_cost.prompt_tokens,
                                      !.completion_tokens = total_cost.completion_tokens]
    /\ returned' = Returned([status |-> "SUCCESS", node_outputs |-> OutputsJson(node_outputs),
                             final_output |-> final_output, error |-> VNull,
                             traces |-> traces, cost |-> total_cost])
    /\ pc' = "done"

\* mutant: a final output reference that does not resolve fails the run, as
\* it would in an input mapping
FinishStrict ==
    /\ pc = "loop"
    /\ node_index > Len(nodes)
    /\ IF workflow.final_output = VNull
       THEN RunSucceeds(VNull)
       ELSE LET mapping == workflow.final_output.mapping
                failing == {k \in 1..Len(mapping) :
                               ~EvaluateFromNode(node_outputs,
                                    FromNodeMapping(mapping[k][2].node_id, mapping[k][2].path),
                                    0, mapping[k][1]).ok}
            IN IF failing = {}
               THEN RunSucceeds(MapFinalOutput(mapping, node_outputs, <<>>))
               ELSE RunFails(NodeTraceError("PATH_NOT_FOUND", <<>>), node_outputs, traces)
    /\ UNCHANGED <<workflow, draft_override, trace_models, nodes, node_index, node_outputs,
                   traces, total_cost, tool_calls, caught>>

(* execute after the loop: final output mapping, SUCCESS is committed *)
Finish ==
    /\ pc = "loop"
    /\ node_index > Len(nodes)
    /\ RunSucceeds(IF workflow.final_output # VNull
                   THEN MapFinalOutput(workflow.final_output.mapping, node_outputs, <<>>)
                   ELSE VNull)
    /\ UNCHANGED <<workflow, draft_override, trace_models, nodes, node_index, node_outputs,
                   traces, total_cost, tool_calls, caught>>

-----------------------------------------------------------------------------
(* The workflows executed *)

\* the longest node list
MaxNodes == 3

NodePrompt(force_json) == [force_json |-> force_json]

S_y_from_x == VDict(K_y :> VStr(K_x))

\* what a node is, apart from its id: tool reference, input mapping, prompt
NodeKinds ==
    {[tool_id |-> "llm.summarize", version |-> "1.0.0", prompt |-> VNull,
      input_mapping |-> <<<<K_text, ConstantMapping(VStr(T_plain))>>>>],
     [tool_id |-> "llm.summarize", version |-> "1.0.0", prompt |-> NodePrompt(TRUE),
      input_mapping |-> <<<<K_text, ConstantMapping(VStr(T_plain))>>>>],
     [tool_id |-> "llm.summarize", version |-> "1.0.0", prompt |-> VNull,
      input_mapping |-> <<<<K_text, FromNodeMapping(1, K_result)>>>>],
     [tool_id |-> "llm.summarize", version |-> "1.0.0", prompt |-> VNull,
      input_mapping |-> <<<<K_text, FromNodeMapping(1, Join2(K_missing, K_x))>>>>],
     [tool_id |-> "llm.summarize", version |-> "2.0.0", prompt |-> VNull,
      input_mapping |-> <<<<K_text, UnknownMapping>>>>],
     [tool_id |-> "llm.my_summary", version |-> "1.0.0", prompt |-> NodePrompt(TRUE),
      input_mapping |-> <<<<K_text, ConstantMapping(VStr(T_plain))>>>>],
     [tool_id |-> "data.map", version |-> "1.0.0", prompt |-> VNull,
      input_mapping |-> <<<<K_data, FromNodeMapping(1, K_result)>>,
                          <<K_mapping, ConstantMapping(S_y_from_x)>>>>]}

(* WorkflowNode; the node at position p has node_id p *)
WorkflowNode(node_id, kind) ==
    [node_id |-> node_id, tool_id |-> kind.tool_id, version |-> kind.version,
     input_mapping |-> kind.input_mapping, prompt |-> kind.prompt]

NodeLists ==
    {[p \in 1..Len(kinds) |-> WorkflowNode(p, kinds[p])] :
        kinds \in UNION {[1..n -> NodeKinds] : n \in 0..MaxNodes}}

(* FinalOutputMapping *)
FinalOutputMapping(node_id, path) == [node_id |-> node_id, path |-> path]

\* workflow.final_output: none, or a mapping with a whole output, a nested
\* value, a path that is missing and a node that may not exist
FinalOutputs ==
    {VNull,
     [mapping |-> <<<<K_out, FinalOutputMapping(1, K_result)>>,
                    <<K_x, FinalOutputMapping(1, Join2(K_result, K_x))>>,
                    <<K_gone, FinalOutputMapping(1, Join2(K_missing, K_x))>>,
                    <<K_late, FinalOutputMapping(2, K_result)>>>>]}

Workflows == {[nodes |-> ns, final_output |-> f] : ns \in NodeLists, f \in FinalOutputs}

\* draft_override: none, {}, {"nodes": []}, {"nodes": [a node as a dict]}
DraftOverrides ==
    {VNull, EmptyDict, VDict(K_nodes :> VList(<<>>)),
     VDict(K_nodes :> VList(<<VDict((K_node_id :> VStr(K_1))
                                     @@ (K_tool_id :> VStr(K_text)))>>))}

\* create_run has stored the run row and calls execute with one of these
\* workflows and draft overrides
InitRun(workflows, overrides) ==
    /\ workflow \in workflows
    /\ draft_override \in overrides
    /\ run_model = NewRunModel
    /\ trace_models = <<>>
    /\ nodes = <<>>
    /\ node_index = 0
    /\ node_outputs = <<>>
    /\ traces = <<>>
    /\ total_cost = RunCost(0, 0, 0)
    /\ returned = NoResult
    /\ tool_calls = <<>>
    /\ caught = NoValue
    /\ pc = "created"
    /\ runs = <<>>

InitEngine == InitRun(Workflows, DraftOverrides)

Init ==
    /\ InitEngine
    /\ \E registry \in Registries :
          /\ _tools = registry.tools
          /\ _versioned_tools = registry.versioned
    /\ reg_log = <<>>
    /\ reg_got = NoCall
    /\ IdleEval
    /\ IdleValidate

Next ==
    \/ Begin /\ UNCHANGED <<evalVars, regVars, valVars, concVars>>
    \/ NodeBegin /\ UNCHANGED <<evalVars, regVars, valVars, concVars>>
    \/ NodeEnd /\ UNCHANGED <<evalVars, regVars, valVars, concVars>>
    \/ Finish /\ UNCHANGED <<evalVars, regVars, valVars, concVars>>

Spec == Init /\ [][Next]_vars

-----------------------------------------------------------------------------
(* Runs that are resumed after every await: the commits complete and each  *)
(* tool.run returns or raises                                              *)

\* the longest node list of these runs
MaxLiveNodes == 2

LiveKinds ==
    {kind \in NodeKinds :
        \/ kind.input_mapping[1][2] = ConstantMapping(VStr(T_plain)) /\ kind.prompt = VNull
        \/ kind.input_mapping[1][2] = FromNodeMapping(1, Join2(K_missing, K_x))
        \/ kind.tool_id = "llm.my_summary"}

LiveNodeLists ==
    {[p \in 1..Len(kinds) |-> WorkflowNode(p, kinds[p])] :
        kinds \in UNION {[1..n -> LiveKinds] : n \in 0..MaxLiveNodes}}

LiveWorkflows ==
    {[nodes |-> ns, final_output |-> f] : ns \in LiveNodeLists, f \in FinalOutputs \ {VNull}}

\* no override, or one whose node is a dict
LiveOverrides ==
    {override \in DraftOverrides :
        override = VNull \/ (PyTruthy(override) /\ PyTruthy(override.d[K_nodes]))}

InitLive ==
    /\ InitRun(LiveWorkflows, LiveOverrides)
    /\ _tools = ExtendedRegistry.tools
    /\ _versioned_tools = ExtendedRegistry.versioned
    /\ reg_log = <<>>
    /\ reg_got = NoCall
    /\ IdleEval
    /\ IdleValidate

SpecLive == InitLive /\ [][Next]_vars /\ WF_vars(Next)

-----------------------------------------------------------------------------
(* Runs of workflows that hand data from node to node: tools with defaults *)
(* and the data mapper, with and without the data mapper registered        *)

\* the longest node list of these workflows
MaxFlowNodes == 2

S_x_is_1 == VDict(K_x :> VInt(1))

FlowKinds ==
    {[tool_id |-> "llm.translate", version |-> "1.0.0", prompt |-> VNull,
      input_mapping |-> <<<<K_text, ConstantMapping(VStr(T_plain))>>>>],
     [tool_id |-> "llm.translate", version |-> "1.0.0", prompt |-> VNull,
      input_mapping |-> <<<<K_text, FromNodeMapping(1, K_result)>>,
                          <<K_target_language, ConstantMapping(VInt(1))>>>>],
     [tool_id |-> "llm.translate", version |-> "1.0.0", prompt |-> VNull,
      input_mapping |-> <<<<K_text, UnknownMapping>>>>],
     [tool_id |-> "llm.translate", version |-> "2.0.0", prompt |-> VNull,
      input_mapping |-> <<<<K_text, ConstantMapping(VStr(T_plain))>>>>],
     [tool_id |-> "llm.translate", version |-> "", prompt |-> VNull,
      input_mapping |-> <<<<K_text, ConstantMapping(VStr(T_plain))>>>>],
     [tool_id |-> "data.map", version |-> "1.0.0", prompt |-> VNull,
      input_mapping |-> <<<<K_x, ConstantMapping(VInt(1))>>>>],
     [tool_id |-> "data.map", version |-> "1.0.0", prompt |-> VNull,
      input_mapping |-> <<<<K_y, FromNodeMapping(1, Join2(K_result, K_x))>>>>],
     [tool_id |-> "data.map", version |-> "1.0.0", prompt |-> VNull,
      input_mapping |-> <<<<K_data, ConstantMapping(S_x_is_1)>>,
                          <<K_mapping, ConstantMapping(VDict(K_x :> VStr(K_x)))>>>>],
     [tool_id |-> "data.map", version |-> "1.0.0", prompt |-> VNull,
      input_mapping |-> <<<<K_data, FromNodeMapping(1, K_result)>>,
                          <<K_mapping, ConstantMapping(S_y_from_x)>>>>]}

FlowNodeLists ==
    {[p \in 1..Len(kinds) |-> WorkflowNode(p, kinds[p])] :
        kinds \in UNION {[1..n -> FlowKinds] : n \in 0..MaxFlowNodes}}

FlowWorkflows == {[nodes |-> ns, final_output |-> VNull] : ns \in FlowNodeLists}

InitDataflow ==
    /\ InitRun(FlowWorkflows, {VNull})
    /\ \E registry \in Registries :
          /\ _tools = registry.tools
          /\ _versioned_tools = registry.versioned
    /\ reg_log = <<>>
    /\ reg_got = NoCall
    /\ IdleEval
    /\ IdleValidate

SpecDataflow == InitDataflow /\ [][Next]_vars

-----------------------------------------------------------------------------
(* Several runs in flight: create_run builds a WorkflowEngine and calls    *)
(* execute for each request; node_outputs, traces and total_cost are       *)
(* locals of the call, the registry is the one module-level object         *)

\* the requests in flight
MaxRuns == 2

RunIds == 1..MaxRuns

\* the run row create_run stored and the locals of the execute call made
\* for it; replies is the history of what the LLM endpoint answered
NewRun(wf) ==
    [workflow |-> wf, draft_override |-> VNull, run_model |-> NewRunModel, pc |-> "created",
     nodes |-> <<>>, node_index |-> 0, node_outputs |-> <<>>, traces |-> <<>>,
     total_cost |-> RunCost(0, 0, 0), returned |-> NoResult, replies |-> <<>>]

\* execute up to the loop
RunBegun(run) ==
    [run EXCEPT !.run_model.status = "RUNNING",
                !.nodes = IF PyTruthy(run.draft_override)
                             /\ K_nodes \in DOMAIN run.draft_override.d
                          THEN run.draft_override.d[K_nodes].l
                          ELSE run.workflow.nodes,
                !.node_index = 1,
                !.pc = "loop"]

\* the fail-fast branch and the "except Exception" branch of execute
RunFailed(run, error, outputs, trs) ==
    [run EXCEPT !.run_model = [run.run_model EXCEPT !.status = "FAILED", !.error_json = error,
                                                    !.node_outputs_json = OutputsJson(outputs)],
                !.node_outputs = outputs,
                !.traces = trs,
                !.returned = Returned([status |-> "FAILED",
                                       node_outputs |-> OutputsJson(outputs),
                                       final_output |-> VNull, error |-> error, traces |-> trs,
                                       cost |-> run.total_cost]),
                !.pc = "done"]

\* token usage aggregation, then the next node
RunGoesOn(run, done, usage) ==
    [run EXCEPT !.node_outputs = done.node_outputs,
                !.traces = Append(run.traces, done.trace),
                !.total_cost = IF PyTruthy(usage) THEN AddUsage(run.total_cost, usage)
                               ELSE run.total_cost,
                !.node_index = run.node_index + 1]

\* the loop body of execute once _execute_node has returned
RunNodeReturned(run, done, usage) ==
    IF done.trace.status = "FAILED"
    THEN RunFailed(run, done.trace.error, done.node_outputs, Append(run.traces, done.trace))
    ELSE IF PyTruthy(usage) /\ usage.t # "dict"
    THEN RunFailed(run, UnexpectedError("INTERNAL_ERROR", PyException("AttributeError")),
                   done.node_outputs, Append(run.traces, done.trace))
    ELSE RunGoesOn(run, done, usage)

\* the token usage execute reads from the trace of the node
TraceUsage(trace) ==
    IF K_token_usage \in DOMAIN trace.output_summary.d
    THEN trace.output_summary.d[K_token_usage] ELSE VNull

\* one iteration of the loop of execute on the node_outputs dict given
RunNodeOn(run, outputs, done) == RunNodeReturned(run, done, TraceUsage(done.trace))

\* mutant: one node_outputs dict for all the runs in flight
SharedOutputs(all, run_id) ==
    LET ids == UNION {DOMAIN all[r].node_outputs : r \in DOMAIN all} IN
    [id \in ids |->
        all[CHOOSE r \in DOMAIN all :
               /\ id \in DOMAIN all[r].node_outputs
               /\ \A q \in DOMAIN all : id \in DOMAIN all[q].node_outputs => r <= q
           ].node_outputs[id]]

\* the node_outputs dict the execute call of this run works on: its local
RunOutputs(all, run_id) == all[run_id].node_outputs

\* one iteration of the loop of execute, the LLM endpoint replying reply
RunNode(run, outputs, tools, versioned, reply) ==
    IF ~IsNodeObject(run.nodes[run.node_index])
    THEN RunFailed(run, UnexpectedError("INTERNAL_ERROR", PyException("AttributeError")),
                   outputs, run.traces)
    ELSE RunNodeOn([run EXCEPT !.replies = Append(run.replies, reply)], outputs,
                   ExecuteNode(run.nodes[run.node_index], outputs, tools, versioned, reply))

\* execute after the loop
RunFinished(run) ==
    LET final_output == IF run.workflow.final_output # VNull
                        THEN MapFinalOutput(run.workflow.final_output.mapping,
                                            run.node_outputs, <<>>)
                        ELSE VNull
    IN [run EXCEPT !.run_model = [run.run_model EXCEPT
                                     !.status = "SUCCESS",
                                     !.node_outputs_json = OutputsJson(run.node_outputs),
                                     !.final_output_json = final_output,
                                     !.total_tokens = run.total_cost.tokens,
                                     !.prompt_tokens = run.total_cost.prompt_tokens,
                                     !.completion_tokens = run.total_cost.completion_tokens],
                   !.returned = Returned([status |-> "SUCCESS",
                                          node_outputs |-> OutputsJson(run.node_outputs),
                                          final_output |-> final_output, error |-> VNull,
                                          traces |-> run.traces, cost |-> run.total_cost]),
                   !.pc = "done"]

\* the workflows the requests name
ConcKinds ==
    {[tool_id |-> "llm.summarize", version |-> "1.0.0", prompt |-> VNull,
      input_mapping |-> <<<<K_text, ConstantMapping(VStr(T_plain))>>>>],
     [tool_id |-> "llm.summarize", version |-> "1.0.0", prompt |-> VNull,
      input_mapping |-> <<<<K_text, FromNodeMapping(1, K_result)>>>>]}

ConcWorkflows ==
    {[nodes |-> [p \in 1..Len(kinds) |-> WorkflowNode(p, kinds[p])],
      final_output |-> [mapping |-> <<<<K_out, FinalOutputMapping(1, K_result)>>>>]] :
        kinds \in [1..2 -> ConcKinds]}

\* what the LLM endpoint answers while several runs are in flight
ConcReplies ==
    {reply \in LlmReplies :
        \/ Unanswered(reply) /\ reply.timeout
        \/ ~Unanswered(reply) /\ reply.status_code = 200 /\ reply.text # T_array}

InitConcurrent ==
    /\ runs \in {[r \in RunIds |-> NewRun(wfs[r])] : wfs \in [RunIds -> ConcWorkflows]}
    /\ _tools = ExtendedRegistry.tools
    /\ _versioned_tools = ExtendedRegistry.versioned
    /\ reg_log = <<>>
    /\ reg_got = NoCall
    /\ IdleExecute
    /\ IdleEval
    /\ IdleValidate

\* the execute call of one run goes on to its next await
ExecuteBegin(run_id) ==
    /\ runs[run_id].pc = "created"
    /\ runs' = [runs EXCEPT ![run_id] = RunBegun(runs[run_id])]

ExecuteLoop(run_id) ==
    /\ runs[run_id].pc = "loop"
    /\ runs[run_id].node_index <= Len(runs[run_id].nodes)
    /\ \E reply \in ConcReplies :
          runs' = [runs EXCEPT ![run_id] =
                      RunNode(runs[run_id], RunOutputs(runs, run_id), _tools,
                              _versioned_tools, reply)]

ExecuteFinish(run_id) ==
    /\ runs[run_id].pc = "loop"
    /\ runs[run_id].node_index > Len(runs[run_id].nodes)
    /\ runs' = [runs EXCEPT ![run_id] = RunFinished(runs[run_id])]

NextConcurrent ==
    \/ \E run_id \in RunIds :
          ExecuteBegin(run_id) /\ UNCHANGED <<evalVars, regVars, valVars, engineVars>>
    \/ \E run_id \in RunIds :
          ExecuteLoop(run_id) /\ UNCHANGED <<evalVars, regVars, valVars, engineVars>>
    \/ \E run_id \in RunIds :
          ExecuteFinish(run_id) /\ UNCHANGED <<evalVars, regVars, valVars, engineVars>>

SpecConcurrent == InitConcurrent /\ [][NextConcurrent]_vars

-----------------------------------------------------------------------------
(* Path resolution as the specification states it, on the segments the     *)
(* path was written from                                                   *)

\* the all-digit segments of PathSegs and the integers they denote
RefIndex == (K_0 :> 0) @@ (K_1 :> 1) @@ (K_2 :> 2) @@ (K_01 :> 1)

\* the values one segment leads to from v: by key in a keyed container, by
\* integer in a sequence when the segment is all digits and in range
RefStep(v, seg) ==
    IF v.t = "dict"
    THEN IF seg \in DOMAIN v.d THEN {v.d[seg]} ELSE {}
    ELSE IF v.t = "list" /\ seg \in DOMAIN RefIndex /\ RefIndex[seg] < Len(v.l)
         THEN {v.l[RefIndex[seg] + 1]}
         ELSE {}

RECURSIVE RefReach(_, _)
RefReach(v, segs) ==
    IF segs = <<>> THEN {v}
    ELSE UNION {RefReach(w, Tail(segs)) : w \in RefStep(v, Head(segs))}

\* a classified failure with the given code
Fails(result, code) == ~result.ok /\ result.kind = "WorkflowError" /\ result.code = code

Path_meta_chars == <<"m", "e", "t", "a", ".", "c", "h", "a", "r", "s">>
Path_items_0_name == <<"i", "t", "e", "m", "s", ".", "0", ".", "n", "a", "m", "e">>
Path_missing_x == <<"m", "i", "s", "s", "i", "n", "g", ".", "x">>

-----------------------------------------------------------------------------
(* Registry claims *)

\* the register() calls, by position in reg_log, that registered under
\* (tool_id, version); version PyNone stands for any version
RegisteredAs(tool_id, version) ==
    {k \in 1..Len(reg_log) :
        /\ reg_log[k].tool_id # ""
        /\ reg_log[k].tool_id = tool_id
        /\ (version = PyNone \/ reg_log[k].version = version)}

LastOf(S) == CHOOSE k \in S : \A j \in S : j <= k

-----------------------------------------------------------------------------
(* validate_inputs claims *)

ViParams == {vi_schema[k] : k \in DOMAIN vi_schema}

\* the raw value of a declared parameter is absent: no key, or None
ViRawAbsent(param) == param.name \notin DOMAIN vi_inputs.d \/ vi_inputs.d[param.name] = VNull

\* the failure is the one raised for a missing required input
ViMissingError(result) ==
    Fails(result, "TOOL_INPUT_INVALID") /\ "expected_type" \notin DOMAIN result.details

\* C10: an absent raw value of a declared parameter is replaced by the
\* declared default when the parameter is optional and fails validation with
\* ToolInputInvalid naming the parameter when it is required; a returned
\* validated object never lacks a required parameter.
C10_AbsentValues ==
    vi_pc = "done" =>
        /\ (\E p \in ViParams : p.required /\ ViRawAbsent(p)) =>
               Fails(vi_result, "TOOL_INPUT_INVALID")
        /\ (vi_schema[1].required /\ ViRawAbsent(vi_schema[1])) =>
               ViMissingError(vi_result) /\ vi_result.details.param = vi_schema[1].name
        /\ ViMissingError(vi_result) =>
               \E p \in ViParams :
                   p.required /\ ViRawAbsent(p) /\ vi_result.details.param = p.name
        /\ vi_result.ok =>
               \A p \in ViParams :
                   /\ p.name \in DOMAIN vi_result.value.d
                   /\ ViRawAbsent(p) =>
                          ~p.required /\ vi_result.value.d[p.name] = p.default
                   /\ p.required => vi_result.value.d[p.name] # VNull

\* {"text": "a"} validated against (text: string, required) and
\* (max_length: integer, optional, default 100) carries max_length = 100
C10_Witness ==
    /\ vi_pc = "done"
    /\ vi_schema = <<ToolParameter(K_text, "string", TRUE, VNull),
                     ToolParameter(K_max_length, "integer", FALSE, VInt(100))>>
    /\ vi_inputs = VDict(K_text :> VStr(K_a))
    /\ vi_result = Returned(VDict((K_text :> VStr(K_a)) @@ (K_max_length :> VInt(100))))

-----------------------------------------------------------------------------
(* The engine: what the specification states about one run *)

\* the run has returned with this status
Ended(status) == pc = "done" /\ returned.ok /\ returned.value.status = status

\* the node ids of the first i nodes of the executed list
FirstIds(i) == {nodes[k].node_id : k \in 1..i}

\* a reference [node_id, path] resolves against the outputs: the node is
\* there and the path leads to a value
Resolves(outputs, ref) ==
    /\ ref.node_id \in DOMAIN outputs
    /\ ~IsNone(GetByPath(outputs[ref.node_id], ref.path))

\* C1: fail-fast.  When the run has ended on the FAILED trace of node n_i,
\* the status is FAILED, the traces are those of n1..n_i in order with
\* n1..n_(i-1) SUCCESS, no tool of a later node was called, and
\* node_outputs holds entries for exactly n1..n_(i-1), none for n_i.
C1_FailFast ==
    (pc = "done" /\ traces # <<>> /\ traces[Len(traces)].status = "FAILED") =>
        LET i == Len(traces) IN
        /\ Ended("FAILED")
        /\ run_model.status = "FAILED"
        /\ i <= Len(nodes)
        /\ \A k \in 1..i : traces[k].node_id = nodes[k].node_id
        /\ \A k \in 1..(i - 1) : traces[k].status = "SUCCESS"
        /\ returned.value.traces = traces
        /\ \A c \in 1..Len(tool_calls) : tool_calls[c].node_id \in FirstIds(i)
        /\ DOMAIN node_outputs = FirstIds(i - 1)
        /\ returned.value.node_outputs = OutputsJson(node_outputs)

\* C4: after a run in which all nodes succeeded, a key of the final output
\* mapping is in final_output exactly if its reference resolves; a key whose
\* path is missing from an existing node's output is absent.
C4_FinalOutputOmitsUnresolved ==
    (Ended("SUCCESS") /\ workflow.final_output # VNull) =>
        LET mapping == workflow.final_output.mapping
            final_output == returned.value.final_output
        IN \A k \in 1..Len(mapping) :
              (mapping[k][1] \in DOMAIN final_output.d) <=> Resolves(node_outputs, mapping[k][2])

\* every node of the executed list has a SUCCESS trace
AllNodesSucceeded ==
    /\ Len(traces) = Len(nodes)
    /\ \A k \in 1..Len(traces) : traces[k].status = "SUCCESS"

\* the final output mapping has a reference to a node that is not in
\* node_outputs, and one to a path that does not resolve in a node that is
FinalOutputUnresolved ==
    /\ workflow.final_output # VNull
    /\ \E k \in 1..Len(workflow.final_output.mapping) :
          workflow.final_output.mapping[k][2].node_id \notin DOMAIN node_outputs
    /\ \E k \in 1..Len(workflow.final_output.mapping) :
          /\ workflow.final_output.mapping[k][2].node_id \in DOMAIN node_outputs
          /\ ~Resolves(node_outputs, workflow.final_output.mapping[k][2])

\* the first input mapping of the node that is not a constant is a fromNode
\* reference that does not resolve
InputUnresolved(node, outputs) ==
    \E k \in 1..Len(node.input_mapping) :
       /\ node.input_mapping[k][2].type = "fromNode"
       /\ ~Resolves(outputs, node.input_mapping[k][2])
       /\ \A j \in 1..(k - 1) : node.input_mapping[j][2].type = "constant"

\* C5: when every node succeeded the run has ended SUCCESS with error null,
\* whatever the final output mapping refers to; a node with an input
\* reference that does not resolve ends FAILED with PATH_NOT_FOUND, and the
\* run FAILED with it.
C5_MappingAsymmetry ==
    /\ [](pc = "done" /\ AllNodesSucceeded =>
             /\ Ended("SUCCESS")
             /\ returned.value.error = VNull
             /\ run_model.status = "SUCCESS"
             /\ run_model.error_json = VNull)
    /\ [][(/\ pc = "node"
           /\ pc' # "node"
           /\ InputUnresolved(nodes[node_index], node_outputs))
          => /\ traces'[Len(traces')].node_id = nodes[node_index].node_id
             /\ traces'[Len(traces')].status = "FAILED"
             /\ traces'[Len(traces')].error.code = "PATH_NOT_FOUND"
             /\ run_model'.status = "FAILED"
             /\ run_model'.error_json.code = "PATH_NOT_FOUND"
             /\ returned'.value.status = "FAILED"]_vars

\* a run that ended SUCCESS although its final output mapping refers to a
\* missing node and to a missing path
C5_Witness ==
    /\ Ended("SUCCESS")
    /\ returned.value.error = VNull
    /\ Len(nodes) > 0
    /\ AllNodesSucceeded
    /\ FinalOutputUnresolved

\* C6: the persisted status changes only PENDING -> RUNNING, at the start of
\* execute, and RUNNING -> SUCCESS or RUNNING -> FAILED, when execute
\* returns; it is PENDING only before execute, terminal exactly once execute
\* has returned, and a terminal status is never changed.
C6_StatusTransitions ==
    /\ [][run_model'.status # run_model.status =>
             \/ /\ run_model.status = "PENDING"
                /\ run_model'.status = "RUNNING"
                /\ pc = "created"
             \/ /\ run_model.status = "RUNNING"
                /\ run_model'.status \in {"SUCCESS", "FAILED"}
                /\ pc' = "done"]_vars
    /\ [](run_model.status = "PENDING" <=> pc = "created")
    /\ [](run_model.status \in {"SUCCESS", "FAILED"} <=> pc = "done")
    /\ [](pc = "done" => returned.ok /\ returned.value.status = run_model.status)

\* a run that went through nodes and has its terminal status written
C6_Witness ==
    /\ pc = "done"
    /\ run_model.status = "FAILED"
    /\ Len(traces) > 1

\* C7: whenever the run status is SUCCESS, the traces list has the length of
\* the executed node list, is in node order, and every trace is SUCCESS.
C7_SuccessMeansAllSucceeded ==
    (run_model.status = "SUCCESS" \/ Ended("SUCCESS")) =>
        /\ Len(traces) = Len(nodes)
        /\ \A k \in 1..Len(nodes) :
              /\ traces[k].node_id = nodes[k].node_id
              /\ traces[k].status = "SUCCESS"
        /\ returned.value.traces = traces

\* a SUCCESS run over the longest node list
C7_Witness ==
    /\ run_model.status = "SUCCESS"
    /\ Len(nodes) = MaxNodes
    /\ Len(traces) = MaxNodes

\* the count a tool.run call recorded under one of the names, zero if it
\* recorded none
Recorded(call, names) ==
    IF call.token_usage = NoValue \/ (names \cap DOMAIN call.token_usage.d) = {}
    THEN 0
    ELSE call.token_usage.d[CHOOSE name \in names \cap DOMAIN call.token_usage.d : TRUE].i

RECURSIVE SumRecorded(_, _)
SumRecorded(calls, names) ==
    IF calls = <<>> THEN 0
    ELSE Recorded(Head(calls), names) + SumRecorded(Tail(calls), names)

\* C8: when the run has ended SUCCESS, each counter of the run cost is the
\* sum over the nodes of the count the node's tool recorded: total, prompt
\* (input) and completion (output) tokens; the persisted counters agree.
C8_TokensAdditive ==
    Ended("SUCCESS") =>
        /\ returned.value.cost =
              RunCost(SumRecorded(tool_calls, {K_total_tokens}),
                      SumRecorded(tool_calls, {K_prompt_tokens, K_input_tokens}),
                      SumRecorded(tool_calls, {K_completion_tokens, K_output_tokens}))
        /\ run_model.total_tokens = returned.value.cost.tokens
        /\ run_model.prompt_tokens = returned.value.cost.prompt_tokens
        /\ run_model.completion_tokens = returned.value.cost.completion_tokens

-----------------------------------------------------------------------------
(* validate_inputs claims: type checking *)

\* the value's runtime shape is of the declared semantic type: a boolean is of
\* type boolean only, an integer is also a number
HasShape(value, type) ==
    CASE type = "string" -> value.t = "str"
      [] type = "integer" -> value.t = "int"
      [] type = "number" -> value.t \in {"int", "float"}
      [] type = "boolean" -> value.t = "bool"
      [] type = "array" -> value.t = "list"
      [] type = "object" -> value.t = "dict"

\* the value a declared parameter is checked with: the raw value when there
\* is one, the declared default otherwise
ViPresent(param) ==
    IF ViRawAbsent(param) THEN param.default ELSE vi_inputs.d[param.name]

\* the parameter has a value and the value is not of the declared type
ViWrongShape(param) ==
    /\ ~(ViRawAbsent(param) /\ param.required)
    /\ ViPresent(param) # VNull
    /\ ~HasShape(ViPresent(param), param.type)

\* the failure is the one raised for a value of the wrong type
ViTypeError(result, param) ==
    /\ Fails(result, "TOOL_INPUT_INVALID")
    /\ "expected_type" \in DOMAIN result.details
    /\ result.details.param = param.name
    /\ result.details.expected_type = param.type
    /\ result.details.actual_type = TypeName(ViPresent(param))

\* C11: validate_inputs type-checks every present value: when a declared
\* parameter has a value (raw, or the substituted default) whose runtime shape
\* is not of the declared type, validation fails with ToolInputInvalid, and
\* for the first declared parameter the error carries the expected and the
\* actual type; a boolean is not an integer and not a number.
C11_TypeChecked ==
    vi_pc = "done" =>
        /\ (\E p \in ViParams : ViWrongShape(p)) => Fails(vi_result, "TOOL_INPUT_INVALID")
        /\ ViWrongShape(vi_schema[1]) => ViTypeError(vi_result, vi_schema[1])

-----------------------------------------------------------------------------
(* tool.run claims *)

\* the tool.run calls the run has made so far
ToolCalls == {tool_calls[c] : c \in 1..Len(tool_calls)}

\* how often run entered this method
Entered(call, method) == Cardinality({k \in 1..Len(call.steps) : call.steps[k] = method})

\* C12: tool.run composes validation and execution in that order: execute is
\* entered at most once per run call and only after validate_inputs, and it
\* receives the validated object, which holds every declared parameter with
\* the default of an absent optional one, never the raw inputs; when
\* validate_inputs fails execute is not entered and run raises the
\* validation error.
C12_RunValidatesThenExecutes ==
    \A call \in ToolCalls :
        LET validated == ValidateInputs(call.tool.tool_id, call.tool.input_schema, call.inputs)
            schema == call.tool.input_schema
        IN /\ Entered(call, "execute") <= 1
           /\ Entered(call, "validate_inputs") = 1
           /\ call.steps[1] = "validate_inputs"
           /\ call.executed <=> Entered(call, "execute") = 1
           /\ validated.ok =>
                 /\ call.executed
                 /\ call.execute_inputs = validated.value
                 /\ \A k \in 1..Len(schema) :
                       /\ schema[k].name \in DOMAIN call.execute_inputs.d
                       /\ schema[k].name \notin DOMAIN call.inputs.d =>
                              call.execute_inputs.d[schema[k].name] = schema[k].default
           /\ ~validated.ok =>
                 /\ ~call.executed
                 /\ call.execute_inputs = NoValue
                 /\ call.result = validated
                 /\ Fails(call.result, "TOOL_INPUT_INVALID")

\* llm.translate was run with {"text": "hi"} and executed with the default
\* target_language, and a later llm.translate call given target_language = 1
\* raised the validation error without executing
C12_Witness ==
    /\ \E call \in ToolCalls :
          /\ call.tool = TranslateTool
          /\ call.inputs = VDict(K_text :> VStr(T_plain))
          /\ call.executed
          /\ call.execute_inputs =
                VDict((K_text :> VStr(T_plain)) @@ (K_target_language :> VStr(S_English)))
    /\ \E call \in ToolCalls :
          /\ call.tool = TranslateTool
          /\ K_target_language \in DOMAIN call.inputs.d
          /\ ~call.executed
          /\ Fails(call.result, "TOOL_INPUT_INVALID")

-----------------------------------------------------------------------------
(* Error propagation claims *)

\* the except clauses of the last _execute_node caught a classified error
CaughtClassified == caught # NoValue /\ caught.kind = "WorkflowError"

\* the flag a reader finds on a reported error: an error object without a
\* retryable field reads as not retryable
ReportedRetryable(error) == "retryable" \in DOMAIN error /\ error.retryable

\* the reported error carries the code, details and retryable flag of the
\* classified error raised (messages are not modelled)
Carries(error, raised) ==
    /\ error # VNull
    /\ error.code = raised.code
    /\ error.details = raised.details
    /\ ReportedRetryable(error) = raised.retryable

\* C13: when a node fails with a classified error, the trace error of the
\* failing node and the terminal error of the run both carry the code, the
\* details and the retryable flag of that error; an LLM timeout raised with
\* retryable = true is reported with retryable = true.
C13_ClassifiedErrorCarried ==
    (pc = "done" /\ CaughtClassified) =>
        /\ Ended("FAILED")
        /\ traces[Len(traces)].status = "FAILED"
        /\ Carries(traces[Len(traces)].error, caught)
        /\ Carries(returned.value.error, caught)

-----------------------------------------------------------------------------
(* Concurrency claims *)

\* the execute call of a run made alone, from the record given to its end,
\* the LLM endpoint answering the replies in order
RECURSIVE RunAlone(_, _)
RunAlone(run, replies) ==
    IF run.pc = "done" THEN run
    ELSE IF run.pc = "created" THEN RunAlone(RunBegun(run), replies)
    ELSE IF run.node_index > Len(run.nodes) THEN RunAlone(RunFinished(run), replies)
    ELSE RunAlone(RunNode(run, run.node_outputs, _tools, _versioned_tools,
                          replies[Len(run.replies) + 1]),
                  replies)

\* C14: runs in flight together are isolated: a step of one run leaves the
\* row, node_outputs, traces and cost of every other run as they were, and a
\* run that has returned has returned, and persisted, the status,
\* node_outputs, traces, cost and error the same run produces when executed
\* alone with the same tool results.
C14_RunsIsolated ==
    /\ [](\A run_id \in RunIds :
             runs[run_id].pc = "done" =>
                 LET alone == RunAlone(NewRun(runs[run_id].workflow), runs[run_id].replies)
                 IN /\ runs[run_id].returned = alone.returned
                    /\ runs[run_id].run_model = alone.run_model
                    /\ runs[run_id].node_outputs = alone.node_outputs
                    /\ runs[run_id].traces = alone.traces
                    /\ runs[run_id].total_cost = alone.total_cost)
    /\ [][\E run_id \in RunIds :
             \A other \in RunIds \ {run_id} : runs'[other] = runs[other]]_vars

\* two runs have returned: the first succeeded on both its nodes, the second
\* failed on a first node that refers to the output of node 1, which only
\* the first run has
C14_Witness ==
    /\ runs[1].pc = "done"
    /\ runs[2].pc = "done"
    /\ runs[1].returned.value.status = "SUCCESS"
    /\ DOMAIN runs[1].node_outputs = {1, 2}
    /\ runs[2].workflow.nodes[1].input_mapping[1][2] = FromNodeMapping(1, K_result)
    /\ runs[2].returned.value.status = "FAILED"
    /\ runs[2].returned.value.error.code = "PATH_NOT_FOUND"
    /\ runs[2].node_outputs = <<>>

-----------------------------------------------------------------------------
(* Termination claims *)

\* C15: every started run reaches a terminal state: when every await of
\* execute completes, execute returns, and what it returns and what it has
\* persisted has status SUCCESS or FAILED, never PENDING or RUNNING; an
\* unexpected error that escapes node execution ends the run FAILED.
C15_RunTerminates ==
    /\ <>[](/\ pc = "done"
            /\ returned.ok
            /\ returned.value.status \in {"SUCCESS", "FAILED"}
            /\ run_model.status = returned.value.status)
    /\ [][(pc = "loop" /\ node_index <= Len(nodes) /\ ~IsNodeObject(nodes[node_index]))
          => (pc' = "done" /\ returned'.ok /\ returned'.value.status = "FAILED")]_vars

\* the AttributeError of a node given as a dict escaped _execute_node and
\* the run has ended FAILED with INTERNAL_ERROR and no trace
C15_Witness ==
    /\ Ended("FAILED")
    /\ returned.value.error = UnexpectedError("INTERNAL_ERROR", PyException("AttributeError"))
    /\ returned.value.traces = <<>>
    /\ run_model.status = "FAILED"

-----------------------------------------------------------------------------
(* Evaluator claims: purity *)

\* every mapping of the input mapping is a constant
AllConstant(input_mapping) ==
    \A k \in 1..Len(input_mapping) : input_mapping[k][2].type = "constant"

\* the object an input mapping of constants evaluates to
ConstantsOf(input_mapping) ==
    VDict([key \in {input_mapping[k][1] : k \in 1..Len(input_mapping)} |->
              LET k == CHOOSE k \in 1..Len(input_mapping) : input_mapping[k][1] = key
              IN input_mapping[k][2].value])

-----------------------------------------------------------------------------
(* Mapping tag claims *)

\* the first input mapping of the node has a tag that is neither constant
\* nor fromNode
UnknownTagFirst(node) ==
    /\ IsNodeObject(node)
    /\ node.input_mapping # <<>>
    /\ node.input_mapping[1][2].type \notin {"constant", "fromNode"}

-----------------------------------------------------------------------------
(* Dataflow claims *)

\* node_outputs as the node at position k found it: the outputs of the
\* nodes before it
OutputsBefore(k) == [id \in {n \in DOMAIN node_outputs : n < k} |-> node_outputs[id]]

\* every input mapping of the node at position k is a constant or a
\* reference that resolves against the nodes before it
InputsResolve(k) ==
    \A m \in 1..Len(nodes[k].input_mapping) :
        LET mapping == nodes[k].input_mapping[m][2] IN
        \/ mapping.type = "constant"
        \/ mapping.type = "fromNode" /\ Resolves(OutputsBefore(k), mapping)

\* the end-to-end scenario of the specification: n1 and n2 both data.map,
\* n1 mapping {"x": Constant(1)}, n2 mapping {"y": FromNode(n1, "result.x")}
ScenarioNodes ==
    <<WorkflowNode(1, [tool_id |-> "data.map", version |-> "1.0.0", prompt |-> VNull,
                       input_mapping |-> <<<<K_x, ConstantMapping(VInt(1))>>>>]),
      WorkflowNode(2, [tool_id |-> "data.map", version |-> "1.0.0", prompt |-> VNull,
                       input_mapping |-> <<<<K_y, FromNodeMapping(1, Join2(K_result, K_x))>>>>])>>

\* C18: data flows from an earlier node to a later one: a node with a
\* registered tool whose inputs resolve is run with, for every key mapped to
\* FromNode(n1, p), the value n1's output holds at p; when all nodes
\* succeeded the run has ended SUCCESS; and the scenario of the
\* specification ends SUCCESS with node_outputs["n2"]["y"] = 1.
C18_DataFlows ==
    /\ \A k \in 1..Len(traces) :
          (/\ InputsResolve(k)
           /\ RegistryExists(_tools, _versioned_tools, nodes[k].tool_id, nodes[k].version)) =>
              \E call \in ToolCalls :
                  /\ call.node_id = nodes[k].node_id
                  /\ \A m \in 1..Len(nodes[k].input_mapping) :
                        LET key == nodes[k].input_mapping[m][1]
                            mapping == nodes[k].input_mapping[m][2]
                        IN mapping.type = "fromNode" =>
                               /\ key \in DOMAIN call.inputs.d
                               /\ call.inputs.d[key] =
                                     GetByPath(node_outputs[mapping.node_id], mapping.path)
    /\ (pc = "done" /\ AllNodesSucceeded) => Ended("SUCCESS")
    /\ (pc = "done" /\ nodes = ScenarioNodes) =>
          /\ Ended("SUCCESS")
          /\ 2 \in DOMAIN node_outputs
          /\ node_outputs[2].t = "dict"
          /\ K_y \in DOMAIN node_outputs[2].d
          /\ node_outputs[2].d[K_y] = VInt(1)


-----------------------------------------------------------------------------
(* C19 *)

\* the versions registered under a tool id
VersionsOf(versioned, tool_id) ==
    IF tool_id \in DOMAIN versioned THEN versioned[tool_id] ELSE <<>>

\* the step is a call of register(): the log of instances grows by one
Registering == Len(reg_log') = Len(reg_log) + 1

\* C19: register(tool) with an empty tool_id raises the configuration error
\* (ValueError) and leaves both the latest map and the versioned map as they
\* were; a register() that returns has put the instance into the latest map
\* under its tool id and into the versioned map under its tool id and
\* version, and has touched no other entry of either map.
C19_RegisterEmptyIdRejected ==
    [][Registering =>
         LET tool == reg_log'[Len(reg_log')] IN
         /\ reg_got'.call = "register"
         /\ tool.tool_id = "" =>
               /\ reg_got'.result = ValueError
               /\ _tools' = _tools
               /\ _versioned_tools' = _versioned_tools
         /\ tool.tool_id # "" =>
               /\ reg_got'.result = Returned(PyNone)
               /\ DOMAIN _tools' = DOMAIN _tools \cup {tool.tool_id}
               /\ _tools'[tool.tool_id] = tool
               /\ \A id \in DOMAIN _tools : id # tool.tool_id => _tools'[id] = _tools[id]
               /\ DOMAIN _versioned_tools' = DOMAIN _versioned_tools \cup {tool.tool_id}
               /\ DOMAIN _versioned_tools'[tool.tool_id] =
                     DOMAIN VersionsOf(_versioned_tools, tool.tool_id) \cup {tool.version}
               /\ _versioned_tools'[tool.tool_id][tool.version] = tool
               /\ \A ver \in DOMAIN VersionsOf(_versioned_tools, tool.tool_id) :
                     ver # tool.version =>
                        _versioned_tools'[tool.tool_id][ver] = _versioned_tools[tool.tool_id][ver]
               /\ \A id \in DOMAIN _versioned_tools :
                     id # tool.tool_id => _versioned_tools'[id] = _versioned_tools[id]
    ]_vars

\* a register() with an empty tool id was refused on a registry that already
\* held a tool, and a later register() was accepted
C19_Witness ==
    /\ Len(reg_log) = 3
    /\ reg_log[1].tool_id = "x"
    /\ reg_log[2].tool_id = ""
    /\ reg_log[3].tool_id = "x" /\ reg_log[3].version # reg_log[1].version
    /\ reg_got = [call |-> "register", result |-> Returned(PyNone)]
    /\ DOMAIN _tools = {"x"}
    /\ _tools["x"] = reg_log[3]
    /\ DOMAIN _versioned_tools["x"] = {"1.0", "2.0"}


-----------------------------------------------------------------------------
(* C20 *)

\* the one request of the tool call failed: no response before the timeout,
\* a transport error, or a response other than 200
LlmCallFailed(call) ==
    /\ call.request # NoValue
    /\ (Unanswered(call.request) \/ call.request.status_code # 200)

\* what run() raised into _execute_node is a classified LLM_API_ERROR
ClassifiedLlmApiError(raised) ==
    /\ ~raised.ok
    /\ raised.kind = "WorkflowError"
    /\ raised.code = "LLM_API_ERROR"

\* C20: every failed LLM call of every LLM-backed tool a node runs reaches
\* the engine as a classified LLM_API_ERROR, never as an unclassified
\* exception; when there was no response (timeout or transport failure) the
\* error is retryable, when the response was a 4xx it is not.
C20_LlmFailuresClassified ==
    \A call \in ToolCalls :
        LlmCallFailed(call) =>
            /\ ClassifiedLlmApiError(call.result)
            /\ call.result.retryable = Unanswered(call.request)


-----------------------------------------------------------------------------
(* C21 *)

\* what resolving the inputs of the node being executed gives, against the
\* outputs of the nodes executed so far
ResolvedInputs ==
    Evaluate(node_outputs, nodes[node_index].input_mapping, nodes[node_index].node_id)

\* C21: when _execute_node completes for a node, the RUNNING trace of that
\* node has been emitted before, and the inputs are resolved before the tool
\* is looked up: a node whose input mapping does not resolve fails with the
\* mapping error (PATH_NOT_FOUND or MAPPING_INVALID), also when its tool is
\* not registered, and never with TOOL_NOT_FOUND.
C21_StepOrder ==
    [][(pc = "node" /\ pc' # "node") =>
          /\ trace_models # <<>>
          /\ trace_models[Len(trace_models)].node_id = nodes[node_index].node_id
          /\ trace_models[Len(trace_models)].status = "RUNNING"
          /\ ~ResolvedInputs.ok =>
                /\ traces'[Len(traces')].status = "FAILED"
                /\ traces'[Len(traces')].error.code = ResolvedInputs.code
                /\ ResolvedInputs.code \in {"PATH_NOT_FOUND", "MAPPING_INVALID"}
    ]_vars


-----------------------------------------------------------------------------
(* C22 *)

\* the tool id of the node has a registered version, but not the version the
\* node names
VersionNotRegistered(node) ==
    /\ node.tool_id \in DOMAIN _versioned_tools
    /\ node.version \notin DOMAIN _versioned_tools[node.tool_id]

\* the trace of the node at position k is FAILED with TOOL_NOT_FOUND, no
\* tool was invoked for the node, and the run has ended FAILED
LookupFailed(k) ==
    /\ traces[k].status = "FAILED"
    /\ traces[k].error.code = "TOOL_NOT_FOUND"
    /\ \A call \in ToolCalls : call.node_id # nodes[k].node_id
    /\ Ended("FAILED")
    /\ run_model.status = "FAILED"

\* C22 as stated: a node whose tool id is registered but whose version is
\* not fails with TOOL_NOT_FOUND, no tool is invoked for it and the run ends
\* FAILED; the latest version is never used instead.
C22_ExactPairLookup ==
    \A k \in 1..Len(traces) : VersionNotRegistered(nodes[k]) => LookupFailed(k)

\* C22, for a version that is given: a node whose tool id is registered and
\* whose version is a non-empty string that is not registered fails with
\* TOOL_NOT_FOUND, no tool is invoked for it and the run ends FAILED; a node
\* whose version is the empty string is run on the latest instance of its
\* tool id.
C22_ExactPairLookupOfGivenVersion ==
    \A k \in 1..Len(traces) :
        /\ (VersionNotRegistered(nodes[k]) /\ nodes[k].version # "") => LookupFailed(k)
        /\ (nodes[k].version = "" /\ nodes[k].tool_id \in DOMAIN _tools) =>
              \E call \in ToolCalls :
                 /\ call.node_id = nodes[k].node_id
                 /\ call.tool = _tools[nodes[k].tool_id]

\* the second node named a version of llm.translate that is not registered,
\* after a first node that succeeded
C22_Witness ==
    /\ Len(traces) = 2
    /\ traces[1].status = "SUCCESS"
    /\ nodes[2].tool_id = "llm.translate"
    /\ nodes[2].version = "2.0.0"
    /\ VersionNotRegistered(nodes[2])
    /\ LookupFailed(2)


-----------------------------------------------------------------------------
(* C23 *)

\* the tool.run call of the node raised an exception that is not a
\* WorkflowError
RaisedUnclassified(call) == ~call.result.ok /\ call.result.kind = "Exception"

\* C23: when the tool of a node raises an error that is not a classified
\* WorkflowError, the trace of the node is FAILED with code EXECUTION_FAILED
\* and the text of the error as message, and the run has ended as for a
\* classified failure: status FAILED, returned and persisted, the run error
\* equal to the error of that trace, the trace the last one, and no tool of
\* a later node invoked.
C23_UnclassifiedErrorWrapped ==
    \A c \in 1..Len(tool_calls) :
        RaisedUnclassified(tool_calls[c]) =>
            LET call == tool_calls[c]
                k == Len(traces)
            IN /\ c = Len(tool_calls)
               /\ traces[k].node_id = call.node_id
               /\ traces[k].status = "FAILED"
               /\ traces[k].error.code = "EXECUTION_FAILED"
               /\ traces[k].error.message = ExceptionText(call.result.exception)
               /\ traces[k].error.details = [exception |-> call.result.exception]
               /\ Ended("FAILED")
               /\ returned.value.error = traces[k].error
               /\ returned.value.final_output = VNull
               /\ run_model.status = "FAILED"
               /\ run_model.error_json = traces[k].error
               /\ \A j \in 1..(k - 1) : traces[j].status = "SUCCESS"

\* the tool of the second of three nodes got no response before the timeout,
\* after a first node that succeeded
C23_Witness ==
    /\ Len(nodes) = 3
    /\ Len(traces) = 2
    /\ traces[1].status = "SUCCESS"
    /\ Len(tool_calls) = 2
    /\ RaisedUnclassified(tool_calls[2])
    /\ tool_calls[2].result.exception = "TimeoutException"
    /\ traces[2].error.code = "EXECUTION_FAILED"
    /\ pc = "done"


-----------------------------------------------------------------------------
(* C24 *)

\* the positions of the executed node list whose tool was invoked, in call
\* order
CalledNodes == [c \in 1..Len(tool_calls) |-> tool_calls[c].node_id]

\* C24: in every state of a run the traces are, by node id, a prefix of the
\* executed node list in execution order, so that each node has at most one
\* trace; the tool of a node is invoked at most once and only for a node
\* that has its trace; every trace but possibly the last is SUCCESS; and no
\* trace, in the state or in the RunResult returned, is PENDING, RUNNING or
\* SKIPPED.
C24_TracesArePrefix ==
    /\ Len(traces) <= Len(nodes)
    /\ \A k \in 1..Len(traces) :
          /\ traces[k].node_id = nodes[k].node_id
          /\ traces[k].status \in {"SUCCESS", "FAILED"}
          /\ k < Len(traces) => traces[k].status = "SUCCESS"
    /\ \A c, d \in 1..Len(tool_calls) :
          c < d => CalledNodes[c] < CalledNodes[d]
    /\ \A c \in 1..Len(tool_calls) :
          \E k \in 1..Len(traces) : traces[k].node_id = CalledNodes[c]
    /\ (pc = "done" /\ returned.ok) =>
          /\ returned.value.traces = traces
          /\ \A k \in 1..Len(returned.value.traces) :
                returned.value.traces[k].status \notin {"PENDING", "RUNNING", "SKIPPED"}

\* a run over three nodes that ended on the FAILED trace of the third, each
\* of the three tools invoked once
C24_Witness ==
    /\ pc = "done"
    /\ Len(nodes) = 3
    /\ Len(traces) = 3
    /\ traces[3].status = "FAILED"
    /\ CalledNodes = <<1, 2, 3>>


-----------------------------------------------------------------------------
(* C25 *)

\* the call ran a prompt-driven tool whose request was answered with 200
LlmAnswered(call) ==
    /\ call.request # NoValue
    /\ ~Unanswered(call.request)
    /\ call.request.status_code = 200

\* the trace of the node the call was made for
TraceOf(call) == traces[CHOOSE k \in 1..Len(traces) : traces[k].node_id = call.node_id]

\* force_json was requested for the node the call was made for
ForcedJson(call) ==
    \E k \in 1..Len(traces) : nodes[k].node_id = call.node_id /\ ForceJson(nodes[k].prompt)

\* C25: a prompt-driven tool run with force_json whose response text does
\* not parse returns {result: rawText} and the trace of its node is SUCCESS;
\* for every prompt-driven tool and every response text the output of the
\* node is an object.
C25_ForceJsonFallsBack ==
    \A call \in ToolCalls :
        LlmAnswered(call) =>
            /\ call.result.ok
            /\ call.result.value.t = "dict"
            /\ (ForcedJson(call) /\ ~JsonLoads(call.request.text).ok) =>
                  /\ call.result.value = VDict(K_result :> VStr(call.request.text))
                  /\ TraceOf(call).status = "SUCCESS"


-----------------------------------------------------------------------------
(* C26 *)

\* the draft override holds a node list
OverrideHasNodes == PyTruthy(draft_override) /\ K_nodes \in DOMAIN draft_override.d

\* the node id of a node object, or of a node given as a JSON object
NodeIdOf(node) == IF IsNodeObject(node) THEN node.node_id ELSE node.d[K_node_id]

\* C26: with a draft override that holds a node list execute runs exactly
\* the override nodes, in their order, in place of the nodes of the
\* workflow, and without one the nodes of the workflow; each attempted node
\* of the list gets its trace, the run ends on the first FAILED trace, and it
\* ends SUCCESS exactly if every node of the list has a SUCCESS trace.
C26_OverrideNodesExecuted ==
    /\ pc # "created" =>
          nodes = IF OverrideHasNodes THEN draft_override.d[K_nodes].l ELSE workflow.nodes
    /\ pc = "done" =>
          /\ nodes # <<>> => traces # <<>>
          /\ \A k \in 1..Len(traces) : traces[k].node_id = NodeIdOf(nodes[k])
          /\ Ended("SUCCESS") <=> AllNodesSucceeded
          /\ Ended("FAILED") =>
                /\ traces[Len(traces)].status = "FAILED"
                /\ returned.value.error = traces[Len(traces)].error


-----------------------------------------------------------------------------
(* C27 *)

\* the node ids that have a trace with status SUCCESS
Succeeded == {traces[k].node_id : k \in {j \in 1..Len(traces) : traces[j].status = "SUCCESS"}}

\* C27: in every state of a run node_outputs has an entry for a node exactly
\* if the node has a SUCCESS trace, so a node whose trace is FAILED has no
\* entry, whatever made it fail; and an entry once written is neither
\* changed nor removed by any later step of the run.
C27_OutputsOnlyOfSucceeded ==
    /\ [](DOMAIN node_outputs = Succeeded)
    /\ [][pc # "created" =>
             \A n \in DOMAIN node_outputs :
                 n \in DOMAIN node_outputs' /\ node_outputs'[n] = node_outputs[n]]_vars


-----------------------------------------------------------------------------
(* C28 *)

\* get(tool_id) without a version
GetLatest(tool_id) == RegistryGet(_tools, _versioned_tools, tool_id, PyNone)

\* C28: after any sequence of register() calls the tool ids that have a
\* latest entry are those that have at least one versioned entry, and for
\* every registered id get(id, get(id).version) returns the instance that
\* get(id) returns; get, exists and the listing leave both maps as they are.
C28_MapsConsistent ==
    /\ [](DOMAIN _tools =
             {id \in DOMAIN _versioned_tools : DOMAIN _versioned_tools[id] # {}})
    /\ [](\A id \in DOMAIN _tools :
             /\ GetLatest(id).ok
             /\ RegistryGet(_tools, _versioned_tools, id, GetLatest(id).value.version)
                   = GetLatest(id))
    /\ [][reg_got'.call \in {"get", "exists", "list_all"} =>
             /\ _tools' = _tools
             /\ _versioned_tools' = _versioned_tools]_vars

\* the same id was registered as 1.0, as 2.0 and as 1.0 again, so the latest
\* instance is the third and both versions are held, and the tools were
\* listed afterwards
C28_Witness ==
    /\ Len(reg_log) = 3
    /\ \A k \in 1..3 : reg_log[k].tool_id = "x"
    /\ reg_log[1].version = "1.0" /\ reg_log[2].version = "2.0" /\ reg_log[3].version = "1.0"
    /\ GetLatest("x") = Returned(reg_log[3])
    /\ DOMAIN _versioned_tools["x"] = {"1.0", "2.0"}
    /\ reg_got.call = "list_all"
    /\ reg_got.result = Returned({reg_log[3]})


-----------------------------------------------------------------------------
(* C29 *)

\* the RunCost _model_to_response builds from the run row
PersistedCost ==
    RunCost(run_model.total_tokens, run_model.prompt_tokens, run_model.completion_tokens)

\* C29: when execute has returned, the run row agrees with the RunResult
\* returned on status, node_outputs, final_output, error and the three
\* counters of the cost, for a SUCCESS and for a FAILED run.
C29_RecordAgreesWithResult ==
    (pc = "done" /\ returned.ok) =>
        /\ run_model.status = returned.value.status
        /\ run_model.node_outputs_json = returned.value.node_outputs
        /\ run_model.final_output_json = returned.value.final_output
        /\ run_model.error_json = returned.value.error
        /\ PersistedCost = returned.value.cost


-----------------------------------------------------------------------------
(* C30 *)

\* the tool.run call was made for a node whose trace is SUCCESS
OfSucceededNode(call) == call.node_id \in Succeeded

\* the calls made for the nodes that succeeded, in call order
SucceededCalls == SelectSeq(tool_calls, OfSucceededNode)

\* C30: token usage is attributed per node and only on success.  The usage
\* in the trace of a node is the usage its own tool call recorded, the trace
\* of a FAILED node carries none, and the cost returned with a FAILED run is
\* on each counter the sum of what the calls of the nodes that succeeded
\* before the failure recorded.
C30_UsageOnlyOfSucceeded ==
    /\ \A k \in 1..Len(traces) :
          LET summary == traces[k].output_summary.d IN
          /\ traces[k].status = "FAILED" => K_token_usage \notin DOMAIN summary
          /\ K_token_usage \in DOMAIN summary =>
                \E call \in ToolCalls :
                    /\ call.node_id = traces[k].node_id
                    /\ call.token_usage = summary[K_token_usage]
    /\ Ended("FAILED") =>
          returned.value.cost =
              RunCost(SumRecorded(SucceededCalls, {K_total_tokens}),
                      SumRecorded(SucceededCalls, {K_prompt_tokens, K_input_tokens}),
                      SumRecorded(SucceededCalls, {K_completion_tokens, K_output_tokens}))

=============================================================================
